---- MODULE Spec2Model ----
(***************************************************************************)
(* Model of the Groq rate limiter (GroqRateLimiter) and of the inference   *)
(* gateway (EventExtractor.extract_events_with_groq) of                    *)
(* src/instagram/extraction/ai.py.                                         *)
(*                                                                         *)
(* Time is the integer number of seconds read by time.time().  A queue     *)
(* entry is the pair <<timestamp, tokens>>.  Each thread runs the gateway  *)
(* code; pc[t] is its position in that code.                               *)
(***************************************************************************)
EXTENDS Integers, Sequences, FiniteSets, TLC

\* ------------------------------------------------------------------ bounds
\* Entries a per-day queue may hold, reservations under way included.
MaxQueue == 2
\* Rows of the posts table.
MaxPosts == 2
\* Batch runs started.
MaxRuns == 2
\* Events of one model answer.
MaxEvents == 2

\* ------------------------------------------------------- program constants
MINUTE_WINDOW == 60
DAY_WINDOW == 86400
SLEEP_BUFFER == 1
RECENCY_WINDOW == 5
DEFAULT_RETRY_WAIT == 60
max_retries == 3
IMAGE_CHARS == 1000
CHARS_PER_TOKEN == 4
estimated_response_tokens == 1000
INIT_RPM_LIMIT == 1000
INIT_RPD_LIMIT == 500000
INIT_TPM_LIMIT == 300000
RETENTION_DAYS == 30
HORIZON_DAYS == 120

Threads == {"t1", "t2"}
\* run_extraction_batch processes its posts one after the other on one thread.
Orchestrator == {"t1"}
None == "None"
NoLimit == -1

\* ------------------------------------------------------------------ inputs
\* A text part is <<"text", number of characters>>, an image part <<"image_url">>.
\* A message is [content |-> <<"str", n>>] or [content |-> <<"list", parts>>].
SystemMessage == [role |-> "system", content |-> <<"str", 0>>]
UserMessage(chars, images) ==
  [role |-> "user",
   content |-> <<"list", <<<<"text", chars>>>> \o [i \in 1..images |-> <<"image_url">>]>>]
Requests ==
  { <<SystemMessage, UserMessage(0, 0)>>,
    <<SystemMessage, UserMessage(5000, 3)>> }
\* Token counts a response may report (NoTokens: the response carries no usage).
NoTokens == -1
ActualTokens == {NoTokens, 700}
\* Values of the Retry-After header of a throttling response.
RetryAfterHeaders == {None, "5", "soon"}
\* Where json.loads stops on an invalid body.
ErrorPositions == {0, 429}
\* Limits passed to update_limits (NoLimit: the argument is left at None).
RpmLimits == {NoLimit, 2}
RpdLimits == {NoLimit, 2}
TpmLimits == {NoLimit, 2000}
\* The instants at which the clock is observed.
TimePoints == {0, 4, 5, 60, 61, 86461}
\* The instants and responses of the two-thread specification.
ConcurrentTimePoints == {0, 4, 60, 61}

VARIABLES
  now,
  OFFICIAL_RPM_LIMIT, OFFICIAL_RPD_LIMIT, OFFICIAL_TPM_LIMIT,
  RPM_THRESHOLD, RPD_THRESHOLD, TPM_THRESHOLD,
  requests_per_minute, requests_per_day, tokens_per_minute,
  lock,
  pc, estimated_tokens, current_time, usage, wake, admitted,
  attempt, netCalls, sleeps, response, result,
  stats,
  \* the store: the posts table in the order the query returns its rows, and
  \* the number of rows each post has in the events table
  posts_db, events_db,
  \* run_extraction_batch: its position, the list fetch_unprocessed_posts
  \* returned (and the rows of its query), the old posts still to mark, the
  \* loop index and the results
  bpc, posts_data, posts, old_post_ids, post_i, results,
  \* validate_and_insert: the events of the answer, the index of the next one,
  \* success_any, and what was done with each event so far
  events, event_i, success_any, attempts,
  \* batch runs started so far
  runs,
  \* the categories table (a row's id is its index), the rows of the events
  \* table written by _insert_transaction, and the two link tables
  categories_db, event_rows, event_categories, event_tag_rows,
  \* validate_and_insert on one event, per extraction run: the record of the
  \* run's position and locals
  run

limitVars == <<OFFICIAL_RPM_LIMIT, OFFICIAL_RPD_LIMIT, OFFICIAL_TPM_LIMIT,
               RPM_THRESHOLD, RPD_THRESHOLD, TPM_THRESHOLD>>
queueVars == <<requests_per_minute, requests_per_day, tokens_per_minute>>
gatewayVars == <<attempt, netCalls, sleeps, response, result>>
storeVars == <<posts_db, events_db>>
batchVars == <<storeVars, bpc, posts_data, posts, old_post_ids, post_i,
               results, events, event_i, success_any, attempts, runs>>
linkVars == <<categories_db, event_rows, event_categories, event_tag_rows>>
insertVars == <<linkVars, run>>
vars == <<now, limitVars, queueVars, lock, pc, estimated_tokens, current_time,
          usage, wake, admitted, gatewayVars, stats, batchVars, insertVars>>

\* ----------------------------------------------------------------- helpers
RECURSIVE SumTokens(_)
SumTokens(q) == IF q = <<>> THEN 0 ELSE q[1][2] + SumTokens(Tail(q))

RECURSIVE SumSeq(_)
SumSeq(s) == IF s = <<>> THEN 0 ELSE s[1] + SumSeq(Tail(s))

MaxOf(S) == CHOOSE x \in S : \A y \in S : y <= x

Abs(x) == IF x < 0 THEN -x ELSE x

\* int(limit * 0.9) for the non-negative integer limits used here.
Threshold(limit) == (limit * 9) \div 10

\* One popleft loop of _cleanup_old_entries.
RECURSIVE PopExpired(_, _)
PopExpired(q, cutoff) ==
  IF q # <<>> /\ q[1][1] < cutoff THEN PopExpired(Tail(q), cutoff) ELSE q

\* Mutant of CleanupOldEntries: the token queue is purged with the day window.
CleanupTokensByDay(ct) ==
  [rpmQ |-> PopExpired(requests_per_minute, ct - MINUTE_WINDOW),
   rpdQ |-> PopExpired(requests_per_day, ct - DAY_WINDOW),
   tpmQ |-> PopExpired(tokens_per_minute, ct - DAY_WINDOW)]

\* _cleanup_old_entries: the three queues after the purge at current time ct.
CleanupOldEntries(ct) ==
  [rpmQ |-> PopExpired(requests_per_minute, ct - MINUTE_WINDOW),
   rpdQ |-> PopExpired(requests_per_day, ct - DAY_WINDOW),
   tpmQ |-> PopExpired(tokens_per_minute, ct - MINUTE_WINDOW)]

\* _get_current_usage: purge, then count.
GetCurrentUsage(ct) ==
  LET c == CleanupOldEntries(ct)
  IN  [rpm |-> Len(c.rpmQ), rpd |-> Len(c.rpdQ), tpm |-> SumTokens(c.tpmQ)]

\* _estimate_tokens.
PartChars(part) ==
  IF part[1] = "text" THEN part[2]
  ELSE IF part[1] = "image_url" THEN IMAGE_CHARS ELSE 0
MessageChars(m) ==
  IF m.content[1] = "str" THEN m.content[2]
  ELSE IF m.content[1] = "list"
       THEN SumSeq([i \in 1..Len(m.content[2]) |-> PartChars(m.content[2][i])])
       ELSE 0
EstimateTokens(messages) ==
  (SumSeq([i \in 1..Len(messages) |-> MessageChars(messages[i])]) \div CHARS_PER_TOKEN)
    + estimated_response_tokens

\* The walk of lines 148-155: the wait until the first entry at which the
\* accumulated tokens reach tokens_to_free expires; {} when there is none.
RECURSIVE TpmWalk(_, _, _, _)
TpmWalk(q, running, tokens_to_free, ct) ==
  IF q = <<>> THEN {}
  ELSE IF running + q[1][2] >= tokens_to_free
       THEN {q[1][1] + MINUTE_WINDOW - ct}
       ELSE TpmWalk(Tail(q), running + q[1][2], tokens_to_free, ct)

\* wait_times of lines 139-155, as a set.
WaitTimes(c, u, est, ct) ==
  (IF u.rpm >= RPM_THRESHOLD /\ c.rpmQ # <<>>
     THEN {c.rpmQ[1][1] + MINUTE_WINDOW - ct} ELSE {})
  \cup
  (IF (u.tpm + est) >= TPM_THRESHOLD /\ c.tpmQ # <<>>
     THEN TpmWalk(c.tpmQ, 0, (u.tpm + est) - TPM_THRESHOLD + 1, ct) ELSE {})

\* Mutant of Decision: the wait is tested before the daily refusal.
DecisionWaitFirst(u, est, waits) ==
  IF u.rpm >= RPM_THRESHOLD \/ u.rpd >= RPD_THRESHOLD \/ (u.tpm + est) >= TPM_THRESHOLD
  THEN IF waits # {} /\ MaxOf(waits) > 0 THEN "sleep"
       ELSE IF u.rpd >= RPD_THRESHOLD THEN "refuse"
       ELSE "record"
  ELSE "record"

\* The outcome of lines 123-174 for usage u: "refuse" (return False),
\* "sleep" (sleep and recheck) or "record" (fall through to the append).
Decision(u, est, waits) ==
  IF u.rpm >= RPM_THRESHOLD \/ u.rpd >= RPD_THRESHOLD \/ (u.tpm + est) >= TPM_THRESHOLD
  THEN IF u.rpd >= RPD_THRESHOLD THEN "refuse"
       ELSE IF waits # {} /\ MaxOf(waits) > 0 THEN "sleep"
       ELSE "record"
  ELSE "record"

\* Mutant of CanAcquire: the lock does not exclude.
CanAcquireUnlocked(t) == TRUE

\* `with self.lock:` can be entered by t.
CanAcquire(t) == lock = None

\* handle_429_response: the seconds slept for a Retry-After header value.
IsInt(h) == h \in {"5"}
IntOf(h) == IF h = "5" THEN 5 ELSE 0
\* Mutant of RetryWait: an unparseable header is not waited for.
RetryWaitNoFallback(h) ==
  IF h # None
  THEN IF IsInt(h) THEN IntOf(h) ELSE 0
  ELSE DEFAULT_RETRY_WAIT

RetryWait(h) ==
  IF h # None
  THEN IF IsInt(h) THEN IntOf(h) ELSE DEFAULT_RETRY_WAIT
  ELSE DEFAULT_RETRY_WAIT

\* ------------------------------------------------------------------- state
NoUsage == [rpm |-> 0, rpd |-> 0, tpm |-> 0]
NoResponse ==
  [kind |-> None, tokens |-> NoTokens, json |-> FALSE, header |-> None, errpos |-> 0]
NoStats == [time |-> -1, rpm |-> 0, rpd |-> 0, tpm |-> 0]

\* ------------------------------------------- validate_and_insert: the data
\* The extraction runs that may work against the shared store at once.
Runs == {"r1", "r2"}

\* A text field of the model's JSON: given is FALSE for a missing key, chars
\* is the string as a sequence of characters.
NoText == [given |-> FALSE, chars |-> <<>>]

\* A start_datetime or end_datetime of the model's JSON: absent (None or the
\* empty string), a string dateutil cannot parse, or a wall-clock reading
\* with its UTC offset in seconds (offset 0 also stands for a naive string).
NoDate == [kind |-> "absent", local |-> 0, offset |-> 0]

\* What _to_utc returns: None, or an ISO-8601 string in UTC for instant t.
NoUtc == [present |-> FALSE, t |-> 0]

NoRaw ==
  [start_datetime |-> NoDate, end_datetime |-> NoDate, is_all_day |-> FALSE,
   name |-> NoText, description |-> NoText, categories |-> <<>>,
   event_tags |-> <<>>]

NoCleaned ==
  [name |-> <<>>, start_datetime |-> NoUtc, end_datetime |-> NoUtc,
   is_all_day |-> FALSE, categories |-> <<>>, tags |-> <<>>]

\* The locals of validate_and_insert and _insert_transaction for one event.
IdleRun ==
  [ipc |-> "idle", raw |-> NoRaw, top_categories |-> <<>>, top_tags |-> <<>>,
   cleaned |-> NoCleaned, reason |-> None, validated_at |-> 0, event_id |-> 0,
   names |-> <<>>, creating |-> FALSE, cat_ids |-> <<>>, links |-> <<>>,
   tags |-> <<>>, ret |-> None, failure |-> None]

\* A new process: the tracker and the gateway after construction.
TrackerInit ==
  /\ now = 0
  /\ OFFICIAL_RPM_LIMIT = INIT_RPM_LIMIT
  /\ OFFICIAL_RPD_LIMIT = INIT_RPD_LIMIT
  /\ OFFICIAL_TPM_LIMIT = INIT_TPM_LIMIT
  /\ RPM_THRESHOLD = Threshold(INIT_RPM_LIMIT)
  /\ RPD_THRESHOLD = Threshold(INIT_RPD_LIMIT)
  /\ TPM_THRESHOLD = Threshold(INIT_TPM_LIMIT)
  /\ requests_per_minute = <<>>
  /\ requests_per_day = <<>>
  /\ tokens_per_minute = <<>>
  /\ lock = None
  /\ pc = [t \in Threads |-> "idle"]
  /\ estimated_tokens = [t \in Threads |-> 0]
  /\ current_time = [t \in Threads |-> 0]
  /\ usage = [t \in Threads |-> NoUsage]
  /\ wake = [t \in Threads |-> 0]
  /\ admitted = [t \in Threads |-> "pending"]
  /\ attempt = [t \in Threads |-> 0]
  /\ netCalls = [t \in Threads |-> 0]
  /\ sleeps = [t \in Threads |-> 0]
  /\ response = [t \in Threads |-> NoResponse]
  /\ result = [t \in Threads |-> None]

\* The orchestrator before its first batch, on an empty store.
Init ==
  /\ TrackerInit
  /\ stats = NoStats
  /\ posts_db = <<>>
  /\ events_db = <<>>
  /\ bpc = "idle"
  /\ posts_data = <<>>
  /\ posts = <<>>
  /\ old_post_ids = <<>>
  /\ post_i = 1
  /\ results = <<>>
  /\ events = <<>>
  /\ event_i = 1
  /\ success_any = FALSE
  /\ attempts = <<>>
  /\ runs = 0
  /\ categories_db = <<>>
  /\ event_rows = <<>>
  /\ event_categories = {}
  /\ event_tag_rows = {}
  /\ run = [r \in Runs |-> IdleRun]

\* --------------------------------------------------------------- responses
\* errpos is the character index at which json.loads gives up on a body that
\* is not valid JSON (0 for every other response).
Responses ==
  {r \in [kind : {"ok"}, tokens : ActualTokens, json : BOOLEAN, header : {None},
          errpos : ErrorPositions] : r.json => r.errpos = 0}
  \cup [kind : {"throttled"}, tokens : {NoTokens}, json : {FALSE},
        header : RetryAfterHeaders, errpos : {0}]
  \cup [kind : {"error"}, tokens : {NoTokens}, json : {FALSE}, header : {None},
        errpos : {0}]

\* Mutant of Parsed: a body that is not JSON is taken for an answer.
ParsedLenient(r) == "parsed"

\* json.loads of the response body and the return of line 608; None stands
\* for the JSONDecodeError.
Parsed(r) == IF r.json THEN "parsed" ELSE None

\* str(e) of a json.JSONDecodeError raised at character pos of a one-line
\* body: "<msg>: line 1 column <pos+1> (char <pos>)"; the numbers it prints.
JsonErrorNumbers(pos) == <<1, pos + 1, pos>>

\* "429" in str(n) for a number n of at most 7 digits.
HasDigits429(n) == \E k \in 0..4 : (n \div (10 ^ k)) % 1000 = 429

\* Mutant of IsRateLimitError: only a throttling response is rate-limit-class.
IsRateLimitErrorByStatus(r) == r.kind = "throttled"

\* Line 612: `"429" in str(e) or "rate limit" in str(e).lower()` for the
\* exception e that response r ends in.
IsRateLimitError(r) ==
  \/ r.kind = "throttled"
  \/ /\ r.kind = "ok"
     /\ ~r.json
     /\ \E i \in 1..3 : HasDigits429(JsonErrorNumbers(r.errpos)[i])

\* Lines 616-618: the headers handed to handle_429_response; an exception
\* without a response attribute gives the empty dict.
HeaderOf(r) == IF r.kind = "throttled" THEN r.header ELSE None

\* Lines 604-632: what the attempt does once the call is over and the usage,
\* if any, is recorded: return the parsed body, back off, or return None.
AttemptOutcome(r) ==
  IF r.kind = "ok" /\ Parsed(r) # None THEN "return"
  ELSE IF IsRateLimitError(r) THEN "backoff" ELSE "fail"


\* Mutant of UpdateLast: the last entry is rewritten whatever its age.
UpdateLastAlways(q, actual, ct) ==
  IF q # <<>> THEN [q EXCEPT ![Len(q)] = <<q[Len(q)][1], actual>>] ELSE q

\* Mutant of UpdateLast: the rewritten entry is stamped with the update's time.
UpdateLastRestamped(q, actual, ct) ==
  IF q # <<>> /\ Abs(q[Len(q)][1] - ct) < RECENCY_WINDOW
  THEN [q EXCEPT ![Len(q)] = <<ct, actual>>]
  ELSE q

\* One queue after update_actual_usage (lines 199-202, 204-207, 209-212).
UpdateLast(q, actual, ct) ==
  IF q # <<>> /\ Abs(q[Len(q)][1] - ct) < RECENCY_WINDOW
  THEN [q EXCEPT ![Len(q)] = <<q[Len(q)][1], actual>>]
  ELSE q

\* Mutant of RecordRequest: the per-day queue is not written.
RecordRequestMinuteOnly(entry) ==
  /\ requests_per_minute' = Append(requests_per_minute, entry)
  /\ requests_per_day' = requests_per_day
  /\ tokens_per_minute' = Append(tokens_per_minute, entry)

\* The three appends of lines 170-172.
RecordRequest(entry) ==
  /\ requests_per_minute' = Append(requests_per_minute, entry)
  /\ requests_per_day' = Append(requests_per_day, entry)
  /\ tokens_per_minute' = Append(tokens_per_minute, entry)

\* The threads inside check_and_wait_if_needed.
InAdmission == {t \in Threads : pc[t] \in {"admit", "check", "record", "sleeping"}}

\* ------------------------------------------------- the gateway, per thread
\* extract_events_with_groq is entered and calls check_and_wait_if_needed,
\* which estimates the tokens (line 113) before it takes the lock.
Begin(t, messages) ==
  /\ pc[t] = "idle"
  /\ Len(requests_per_day) + Cardinality(InAdmission) < MaxQueue
  /\ estimated_tokens' = [estimated_tokens EXCEPT ![t] = EstimateTokens(messages)]
  /\ pc' = [pc EXCEPT ![t] = "admit"]
  /\ stats' = NoStats
  /\ UNCHANGED <<batchVars, insertVars>>
  /\ UNCHANGED <<admitted, now, limitVars, queueVars, lock, current_time,
                 usage, wake, gatewayVars>>

\* Lines 115-116: take the lock, read the clock.
Acquire(t) ==
  /\ pc[t] = "admit"
  /\ CanAcquire(t)
  /\ lock' = t
  /\ current_time' = [current_time EXCEPT ![t] = now]
  /\ pc' = [pc EXCEPT ![t] = "check"]
  /\ stats' = NoStats
  /\ UNCHANGED <<batchVars, insertVars>>
  /\ UNCHANGED <<admitted, now, limitVars, queueVars, estimated_tokens, usage,
                 wake, gatewayVars>>

\* Lines 117-167: purge, read the usage, compare, and refuse, sleep or go on.
Evaluate(t) ==
  /\ pc[t] = "check"
  /\ LET ct == current_time[t]
         c == CleanupOldEntries(ct)
         u == GetCurrentUsage(ct)
         est == estimated_tokens[t]
         waits == WaitTimes(c, u, est, ct)
         d == Decision(u, est, waits)
     IN  /\ requests_per_minute' = c.rpmQ
         /\ requests_per_day' = c.rpdQ
         /\ tokens_per_minute' = c.tpmQ
         /\ usage' = [usage EXCEPT ![t] = u]
         /\ pc' = [pc EXCEPT ![t] =
                     IF d = "refuse" THEN "refused"
                     ELSE IF d = "sleep" THEN "sleeping" ELSE "record"]
         /\ lock' = IF d = "refuse" THEN None ELSE lock
         /\ admitted' = [admitted EXCEPT ![t] = IF d = "refuse" THEN "False" ELSE @]
         /\ wake' = [wake EXCEPT ![t] =
                       IF d = "sleep" THEN now + MaxOf(waits) + SLEEP_BUFFER ELSE @]
  /\ stats' = NoStats
  /\ UNCHANGED <<batchVars, insertVars>>
  /\ UNCHANGED <<now, limitVars, estimated_tokens, current_time, gatewayVars>>

\* Lines 169-174: record the request in the three queues, return True.
Record(t) ==
  /\ pc[t] = "record"
  /\ RecordRequest(<<current_time[t], estimated_tokens[t]>>)
  /\ lock' = None
  /\ pc' = [pc EXCEPT ![t] = "call"]
  /\ admitted' = [admitted EXCEPT ![t] = "True"]
  /\ estimated_tokens' = [estimated_tokens EXCEPT ![t] = 0]
  /\ current_time' = [current_time EXCEPT ![t] = 0]
  /\ usage' = [usage EXCEPT ![t] = NoUsage]
  /\ stats' = NoStats
  /\ UNCHANGED <<batchVars, insertVars>>
  /\ UNCHANGED <<now, limitVars, wake, gatewayVars>>

\* Lines 166-167: time.sleep is over; the function calls itself, still inside
\* the `with self.lock:` block of the sleeping call.
Wake(t) ==
  /\ pc[t] = "sleeping"
  /\ now >= wake[t]
  /\ pc' = [pc EXCEPT ![t] = "admit"]
  /\ stats' = NoStats
  /\ UNCHANGED <<batchVars, insertVars>>
  /\ UNCHANGED <<admitted, now, limitVars, queueVars, lock, estimated_tokens,
                 current_time, usage, wake, gatewayVars>>

\* Mutant of AfterRefusal: the gateway goes on to the network call.
AfterRefusalCalls == "call"

\* Lines 574-576: where the gateway goes when admission was refused.
AfterRefusal == "done"

\* Lines 574-576: admission refused, return None.
SkipRefused(t) ==
  /\ pc[t] = "refused"
  /\ result' = [result EXCEPT ![t] = None]
  /\ pc' = [pc EXCEPT ![t] = AfterRefusal]
  /\ estimated_tokens' = [estimated_tokens EXCEPT ![t] = 0]
  /\ current_time' = [current_time EXCEPT ![t] = 0]
  /\ usage' = [usage EXCEPT ![t] = NoUsage]
  /\ stats' = NoStats
  /\ UNCHANGED <<batchVars, insertVars>>
  /\ UNCHANGED <<admitted, now, limitVars, queueVars, lock, wake, attempt,
                 netCalls, sleeps, response>>

\* Lines 584-632: one network call and what follows it up to the next
\* blocking point.
NetworkCall(t, r) ==
  /\ pc[t] = "call"
  /\ netCalls' = [netCalls EXCEPT ![t] = @ + 1]
  /\ response' = [response EXCEPT ![t] = r]
  /\ IF r.kind = "ok" /\ r.tokens # NoTokens
     THEN /\ pc' = [pc EXCEPT ![t] = "update"]
          /\ result' = [result EXCEPT ![t] = None]
          /\ UNCHANGED <<sleeps, wake>>
     ELSE /\ pc' = [pc EXCEPT ![t] =
                      IF AttemptOutcome(r) = "backoff" THEN "backoff" ELSE "done"]
          /\ result' = [result EXCEPT ![t] =
                          IF AttemptOutcome(r) = "return" THEN Parsed(r) ELSE None]
          /\ sleeps' = [sleeps EXCEPT ![t] =
                          IF AttemptOutcome(r) = "backoff" THEN @ + 1 ELSE @]
          /\ wake' = [wake EXCEPT ![t] =
                        IF AttemptOutcome(r) = "backoff"
                        THEN now + RetryWait(HeaderOf(r)) ELSE @]
  /\ stats' = NoStats
  /\ UNCHANGED <<batchVars, insertVars>>
  /\ UNCHANGED <<admitted, now, limitVars, queueVars, lock, estimated_tokens,
                 current_time, usage, attempt>>

\* Lines 599-632: update_actual_usage under the lock, then parse the body and
\* return it, or classify the parse error.
UpdateActualUsage(t) ==
  /\ pc[t] = "update"
  /\ CanAcquire(t)
  /\ LET a == response[t].tokens
     IN  /\ requests_per_minute' = UpdateLast(requests_per_minute, a, now)
         /\ requests_per_day' = UpdateLast(requests_per_day, a, now)
         /\ tokens_per_minute' = UpdateLast(tokens_per_minute, a, now)
  /\ LET o == AttemptOutcome(response[t])
     IN  /\ pc' = [pc EXCEPT ![t] = IF o = "backoff" THEN "backoff" ELSE "done"]
         /\ result' = [result EXCEPT ![t] =
                         IF o = "return" THEN Parsed(response[t]) ELSE None]
         /\ sleeps' = [sleeps EXCEPT ![t] = IF o = "backoff" THEN @ + 1 ELSE @]
         /\ wake' = [wake EXCEPT ![t] =
                       IF o = "backoff"
                       THEN now + RetryWait(HeaderOf(response[t])) ELSE @]
  /\ stats' = NoStats
  /\ UNCHANGED <<batchVars, insertVars>>
  /\ UNCHANGED <<admitted, now, limitVars, lock, estimated_tokens,
                 current_time, usage, attempt, netCalls, response>>

\* Mutant of ShouldRetry: the first throttling response ends the call.
ShouldRetryNever(a) == FALSE

\* Mutant of ShouldRetry: one attempt too many.
ShouldRetryOnceMore(a) == a < max_retries

\* Line 623: another attempt follows attempt number a (counted from 0).
ShouldRetry(a) == a < max_retries - 1

\* Mutant of AfterThrottle: a retry goes through admission again.
AfterThrottleReadmit == "admit"

\* Lines 585 and 623-624: `continue` goes to the next turn of the for loop,
\* which starts at the network call; the admission of line 574 is above the
\* loop.
AfterThrottle == "call"

\* Lines 621-628: the sleep of handle_429_response is over; retry or give up.
AfterBackoff(t) ==
  /\ pc[t] = "backoff"
  /\ now >= wake[t]
  /\ attempt' = [attempt EXCEPT ![t] = IF ShouldRetry(@) THEN @ + 1 ELSE @]
  /\ pc' = [pc EXCEPT ![t] = IF ShouldRetry(attempt[t]) THEN AfterThrottle ELSE "done"]
  /\ result' = [result EXCEPT ![t] = None]
  /\ stats' = NoStats
  /\ UNCHANGED <<batchVars, insertVars>>
  /\ UNCHANGED <<admitted, now, limitVars, queueVars, lock, estimated_tokens,
                 current_time, usage, wake, netCalls, sleeps, response>>

\* extract_events_with_groq has returned; the thread is free for the next post.
Return(t) ==
  /\ pc[t] = "done"
  /\ pc' = [pc EXCEPT ![t] = "idle"]
  /\ admitted' = [admitted EXCEPT ![t] = "pending"]
  /\ wake' = [wake EXCEPT ![t] = 0]
  /\ attempt' = [attempt EXCEPT ![t] = 0]
  /\ netCalls' = [netCalls EXCEPT ![t] = 0]
  /\ sleeps' = [sleeps EXCEPT ![t] = 0]
  /\ response' = [response EXCEPT ![t] = NoResponse]
  /\ result' = [result EXCEPT ![t] = None]
  /\ stats' = NoStats
  /\ UNCHANGED <<batchVars, insertVars>>
  /\ UNCHANGED <<now, limitVars, queueVars, lock, estimated_tokens,
                 current_time, usage>>

\* ------------------------------------------- the tracker's other operations
\* update_limits.
UpdateLimits(rpm_limit, rpd_limit, tpm_limit) ==
  /\ CanAcquire("env")
  /\ OFFICIAL_RPM_LIMIT' = IF rpm_limit # NoLimit THEN rpm_limit ELSE OFFICIAL_RPM_LIMIT
  /\ RPM_THRESHOLD' = IF rpm_limit # NoLimit THEN Threshold(rpm_limit) ELSE RPM_THRESHOLD
  /\ OFFICIAL_RPD_LIMIT' = IF rpd_limit # NoLimit THEN rpd_limit ELSE OFFICIAL_RPD_LIMIT
  /\ RPD_THRESHOLD' = IF rpd_limit # NoLimit THEN Threshold(rpd_limit) ELSE RPD_THRESHOLD
  /\ OFFICIAL_TPM_LIMIT' = IF tpm_limit # NoLimit THEN tpm_limit ELSE OFFICIAL_TPM_LIMIT
  /\ TPM_THRESHOLD' = IF tpm_limit # NoLimit THEN Threshold(tpm_limit) ELSE TPM_THRESHOLD
  /\ stats' = NoStats
  /\ UNCHANGED <<batchVars, insertVars>>
  /\ UNCHANGED <<admitted, now, queueVars, lock, pc, estimated_tokens,
                 current_time, usage, wake, gatewayVars>>

\* get_usage_stats; stats is the value it returns, dropped by the caller in
\* the next step.
GetUsageStats ==
  /\ CanAcquire("env")
  /\ LET c == CleanupOldEntries(now)
         u == GetCurrentUsage(now)
     IN  /\ requests_per_minute' = c.rpmQ
         /\ requests_per_day' = c.rpdQ
         /\ tokens_per_minute' = c.tpmQ
         /\ stats' = [time |-> now, rpm |-> u.rpm, rpd |-> u.rpd, tpm |-> u.tpm]
  /\ UNCHANGED <<batchVars, insertVars>>
  /\ UNCHANGED <<admitted, now, limitVars, lock, pc, estimated_tokens,
                 current_time, usage, wake, gatewayVars>>

\* reset_usage.
ResetUsage ==
  /\ CanAcquire("env")
  /\ requests_per_minute' = <<>>
  /\ requests_per_day' = <<>>
  /\ tokens_per_minute' = <<>>
  /\ stats' = NoStats
  /\ UNCHANGED <<batchVars, insertVars>>
  /\ UNCHANGED <<admitted, now, limitVars, lock, pc, estimated_tokens,
                 current_time, usage, wake, gatewayVars>>

\* The clock advances to a later instant.
Tick(tp) ==
  /\ tp > now
  /\ now' = tp
  /\ stats' = NoStats
  /\ UNCHANGED <<batchVars, insertVars>>
  /\ UNCHANGED <<admitted, limitVars, queueVars, lock, pc, estimated_tokens,
                 current_time, usage, wake, gatewayVars>>

Next ==
  \/ \E t \in Orchestrator : \E m \in Requests : Begin(t, m)
  \/ \E t \in Orchestrator : Acquire(t)
  \/ \E t \in Orchestrator : Evaluate(t)
  \/ \E t \in Orchestrator : Record(t)
  \/ \E t \in Orchestrator : Wake(t)
  \/ \E t \in Orchestrator : SkipRefused(t)
  \/ \E t \in Orchestrator : \E r \in Responses : NetworkCall(t, r)
  \/ \E t \in Orchestrator : UpdateActualUsage(t)
  \/ \E t \in Orchestrator : AfterBackoff(t)
  \/ \E t \in Orchestrator : Return(t)
  \/ \E r \in RpmLimits : \E d \in RpdLimits : \E k \in TpmLimits : UpdateLimits(r, d, k)
  \/ GetUsageStats
  \/ ResetUsage
  \/ \E tp \in TimePoints : Tick(tp)

\* The sequential pipeline: one thread, every response, every tracker operation.
Spec == Init /\ [][Next]_vars

ConcurrentResponses == {r \in Responses : r.header \in {None, "5"} /\ (r.kind = "ok" => r.json)}

NextConcurrent ==
  \/ \E t \in Threads : \E m \in Requests : Begin(t, m)
  \/ \E t \in Threads : Acquire(t)
  \/ \E t \in Threads : Evaluate(t)
  \/ \E t \in Threads : Record(t)
  \/ \E t \in Threads : Wake(t)
  \/ \E t \in Threads : SkipRefused(t)
  \/ \E t \in Threads : \E r \in ConcurrentResponses : NetworkCall(t, r)
  \/ \E t \in Threads : UpdateActualUsage(t)
  \/ \E t \in Threads : AfterBackoff(t)
  \/ \E t \in Threads : Return(t)
  \/ \E r \in RpmLimits : \E d \in RpdLimits : \E k \in TpmLimits : UpdateLimits(r, d, k)
  \/ \E tp \in ConcurrentTimePoints : Tick(tp)

\* The tracker shared by two threads running the gateway.
SpecConcurrent == Init /\ [][NextConcurrent]_vars

\* ------------------------------------------------ the store and the batch
\* The thread that runs run_extraction_batch.
MainThread == "t1"

\* timedelta(days=30) in seconds.
RetentionWindow == RETENTION_DAYS * DAY_WINDOW

\* Rows the scraper writes to the posts table: one older than the retention
\* window at time 0, one exactly as old as the window at time 0, one old row
\* whose profile join came back null, one old row whose created_at does not
\* parse.
NewPosts ==
  { [created_at |-> -RetentionWindow - 1, parses |-> TRUE, profiles |-> "dict",
     processed |-> FALSE],
    [created_at |-> -RetentionWindow, parses |-> TRUE, profiles |-> "dict",
     processed |-> FALSE],
    [created_at |-> -RetentionWindow - 1, parses |-> TRUE, profiles |-> None,
     processed |-> FALSE],
    [created_at |-> -RetentionWindow - 1, parses |-> FALSE, profiles |-> "dict",
     processed |-> FALSE] }

\* run [batchSize]: no limit, or a limit of one post.
BatchSizes == {NoLimit, 1}

\* The instants, requests and responses of the batch specification.
BatchTimePoints == {0, 5, 10, 15}
BatchRequests == {<<SystemMessage, UserMessage(5000, 3)>>}
BatchResponses ==
  {r \in Responses :
     \/ r.kind = "ok" /\ r.json /\ r.tokens # NoTokens
     \/ r.kind = "ok" /\ ~r.json /\ r.tokens = NoTokens /\ r.errpos = 0
     \/ r.kind = "throttled" /\ r.header = "5"
     \/ r.kind = "error"}

\* Events the model may report: a timed event ahead with a location name, a
\* timed event that is over, an event beyond the horizon with no year in its
\* text, an event with neither name nor description.
EvAhead ==
  [start |-> 20, has_start |-> TRUE, is_all_day |-> FALSE, text |-> TRUE,
   year |-> FALSE, location_name |-> TRUE]
EvOver ==
  [start |-> -1, has_start |-> TRUE, is_all_day |-> FALSE, text |-> TRUE,
   year |-> FALSE, location_name |-> FALSE]
EvFar ==
  [start |-> 15 + (HORIZON_DAYS + 1) * DAY_WINDOW, has_start |-> TRUE,
   is_all_day |-> FALSE, text |-> TRUE, year |-> FALSE, location_name |-> FALSE]
EvBlank ==
  [start |-> 0, has_start |-> FALSE, is_all_day |-> FALSE, text |-> FALSE,
   year |-> FALSE, location_name |-> FALSE]
EventSamples == {EvAhead, EvOver, EvFar, EvBlank}

RECURSIVE SeqsUpTo(_, _)
SeqsUpTo(S, n) ==
  IF n = 0 THEN {<<>>}
  ELSE SeqsUpTo(S, n - 1) \cup {Append(s, x) : s \in SeqsUpTo(S, n - 1), x \in S}

\* What json.loads may return: the empty object, which Python takes for
\* false, or an object with a list of events.
EmptyObject == [truthy |-> FALSE, events |-> <<>>]
ExtractedData ==
  {EmptyObject} \cup [truthy : {TRUE}, events : SeqsUpTo(EventSamples, MaxEvents)]

\* _validate_event: "ok" for a cleaned event, else the failure reason.
ValidateEventLate(e, ct) ==
  IF /\ e.has_start
     /\ \/ e.is_all_day /\ (e.start \div DAY_WINDOW) <= (ct \div DAY_WINDOW)
        \/ ~e.is_all_day /\ e.start <= ct
  THEN "past"
  ELSE IF e.has_start /\ ((e.start - ct) \div DAY_WINDOW) > HORIZON_DAYS /\ ~e.year
       THEN "validation_failed"
       ELSE IF ~e.text THEN "validation_failed" ELSE "ok"

ValidateEvent(e, ct) ==
  IF /\ e.has_start
     /\ \/ e.is_all_day /\ (e.start \div DAY_WINDOW) < (ct \div DAY_WINDOW)
        \/ ~e.is_all_day /\ e.start < ct
  THEN "past"
  ELSE IF e.has_start /\ ((e.start - ct) \div DAY_WINDOW) > HORIZON_DAYS /\ ~e.year
       THEN "validation_failed"
       ELSE IF ~e.text THEN "validation_failed" ELSE "ok"

\* Lines 326-338: the list a fetched row is appended to.  A date that does
\* not parse raises inside the try, and so does the print of line 333 for an
\* old row whose profiles value is None; both end in valid_posts.
Classify(post, ct) ==
  IF ~post.parses THEN "valid"
  ELSE IF post.created_at < ct - RetentionWindow
       THEN IF post.profiles = None THEN "valid" ELSE "old"
       ELSE "valid"

PostIds == [j \in 1..Len(posts_db) |-> j]

\* Mutant of FetchedRows: the query does not filter on the processed flag.
FetchedRowsUnfiltered(limit) ==
  IF limit = NoLimit THEN PostIds
  ELSE SubSeq(PostIds, 1, IF limit < Len(PostIds) THEN limit ELSE Len(PostIds))

\* Lines 296-316: the rows of the query, .eq('processed', False) with an
\* optional limit, in the order the store returns them.
FetchedRows(limit) ==
  LET rows == SelectSeq(PostIds, LAMBDA p : ~posts_db[p].processed)
  IN  IF limit = NoLimit THEN rows
      ELSE SubSeq(rows, 1, IF limit < Len(rows) THEN limit ELSE Len(rows))

\* Lines 323-338: old_post_ids and valid_posts.
OldPosts(rows, ct) == SelectSeq(rows, LAMBDA p : Classify(posts_db[p], ct) = "old")
ValidPosts(rows, ct) == SelectSeq(rows, LAMBDA p : Classify(posts_db[p], ct) = "valid")

\* The entry a post gets in results.  gateway records how the gateway call of
\* the post ended; it is not a key of the dict the code builds.
ResultEntry(p, success, err, how) ==
  [post_id |-> p, extraction_success |-> success, error |-> err, gateway |-> how]

\* How the gateway call that has just returned ended.
GatewayOutcome ==
  IF result[MainThread] # None THEN "parsed"
  ELSE IF admitted[MainThread] = "False" THEN "refused"
  ELSE IF response[MainThread].kind = "throttled" THEN "exhausted"
  ELSE IF response[MainThread].kind = "ok" THEN "malformed"
  ELSE "failed"

\* The posts table with post p marked processed if the update went through.
Marked(p, ok) ==
  IF ok THEN [posts_db EXCEPT ![p].processed = TRUE] ELSE posts_db

\* Where the batch goes once fetch_unprocessed_posts has returned valid.
AfterFetch(valid) == IF valid = <<>> THEN "returned" ELSE "loop"

\* ------------------------------------------------------ the batch's steps
\* The scraper writes a post before the first batch.
InsertPost(post) ==
  /\ bpc = "idle" /\ runs = 0
  /\ Len(posts_db) < MaxPosts
  /\ posts_db' = Append(posts_db, post)
  /\ events_db' = Append(events_db, 0)
  /\ stats' = NoStats
  /\ UNCHANGED insertVars
  /\ UNCHANGED <<now, limitVars, queueVars, lock, pc, estimated_tokens,
                 current_time, usage, wake, admitted, gatewayVars, bpc, posts_data,
                 posts, old_post_ids, post_i, results, events, event_i,
                 success_any, attempts, runs>>

\* Lines 984-1005 and 292-338: run_extraction_batch reads the usage, runs the
\* query and sorts its rows into old_post_ids and valid_posts.  A query that
\* raises makes fetch_unprocessed_posts return [].
StartBatch(batch_size, query_ok) ==
  /\ bpc \in {"idle", "returned", "aborted"}
  /\ runs < MaxRuns
  /\ CanAcquire(MainThread)
  /\ LET c == CleanupOldEntries(now)
     IN  /\ requests_per_minute' = c.rpmQ
         /\ requests_per_day' = c.rpdQ
         /\ tokens_per_minute' = c.tpmQ
  /\ runs' = runs + 1
  /\ LET rows == IF query_ok THEN FetchedRows(batch_size) ELSE <<>>
         old == OldPosts(rows, now)
         valid == ValidPosts(rows, now)
     IN  /\ posts_data' = rows
         /\ old_post_ids' = old
         /\ posts' = valid
         /\ bpc' = IF old # <<>> THEN "mark_old" ELSE AfterFetch(valid)
  /\ post_i' = 1
  /\ results' = <<>>
  /\ stats' = NoStats
  /\ UNCHANGED insertVars
  /\ UNCHANGED <<storeVars, now, limitVars, lock, pc, estimated_tokens,
                 current_time, usage, wake, admitted, gatewayVars, events,
                 event_i, success_any, attempts>>

\* Lines 341-349: the update of one old post; an update that raises ends the
\* marking loop.
MarkOld(ok) ==
  /\ bpc = "mark_old"
  /\ posts_db' = Marked(Head(old_post_ids), ok)
  /\ old_post_ids' = IF ok THEN Tail(old_post_ids) ELSE <<>>
  /\ bpc' = IF ok /\ Tail(old_post_ids) # <<>> THEN "mark_old" ELSE AfterFetch(posts)
  /\ stats' = NoStats
  /\ UNCHANGED insertVars
  /\ UNCHANGED <<events_db, now, limitVars, queueVars, lock, pc,
                 estimated_tokens, current_time, usage, wake, admitted,
                 gatewayVars, posts_data, posts, post_i, results, events, event_i,
                 success_any, attempts, runs>>

\* Lines 1008-1013, 918-921 and 1030-1037: the top of the loop.  For a post
\* whose profiles value is None the print of line 1010 raises, and the
\* handler's post.get('profiles', {}).get(...) raises again: the exception
\* leaves run_extraction_batch.  Otherwise the request is prepared.
ProcessStart ==
  /\ bpc = "loop"
  /\ post_i <= Len(posts)
  /\ IF posts_db[posts[post_i]].profiles = None
     THEN /\ bpc' = "aborted"
          /\ results' = <<>>
     ELSE /\ bpc' = "extract"
          /\ UNCHANGED results
  /\ stats' = NoStats
  /\ UNCHANGED insertVars
  /\ UNCHANGED <<storeVars, now, limitVars, queueVars, lock, pc,
                 estimated_tokens, current_time, usage, wake, admitted,
                 gatewayVars, posts_data, posts, old_post_ids, post_i, events, event_i,
                 success_any, attempts, runs>>

\* Line 924: process_post hands the request to the gateway.
Submit(messages) ==
  /\ bpc = "extract"
  /\ Begin(MainThread, messages)

\* Lines 926-954 and 1014: the gateway has returned.  None and the empty
\* object end the post with extraction_success False; any other object goes to
\* validate_and_insert.
HandleResult(data) ==
  /\ bpc = "extract"
  /\ pc[MainThread] = "done"
  /\ result[MainThread] = None => data = EmptyObject
  /\ IF data.truthy
     THEN /\ bpc' = "events"
          /\ events' = data.events
          /\ UNCHANGED <<results, post_i>>
     ELSE /\ bpc' = "batch_mark"
          /\ results' = Append(results,
                          ResultEntry(posts[post_i], FALSE, FALSE, GatewayOutcome))
          /\ UNCHANGED <<events, post_i>>
  /\ event_i' = 1
  /\ success_any' = FALSE
  /\ attempts' = <<>>
  /\ pc' = [pc EXCEPT ![MainThread] = "idle"]
  /\ admitted' = [admitted EXCEPT ![MainThread] = "pending"]
  /\ wake' = [wake EXCEPT ![MainThread] = 0]
  /\ attempt' = [attempt EXCEPT ![MainThread] = 0]
  /\ netCalls' = [netCalls EXCEPT ![MainThread] = 0]
  /\ sleeps' = [sleeps EXCEPT ![MainThread] = 0]
  /\ response' = [response EXCEPT ![MainThread] = NoResponse]
  /\ result' = [result EXCEPT ![MainThread] = None]
  /\ stats' = NoStats
  /\ UNCHANGED insertVars
  /\ UNCHANGED <<storeVars, now, limitVars, queueVars, lock, estimated_tokens,
                 current_time, usage, posts_data, posts, old_post_ids, runs>>

\* What _insert_transaction does with a cleaned event: the row and its links
\* are written ("ok"), the events insert fails ("failed"), or the row is
\* written and a later link insert raises ("partial"); only "ok" returns True.
InsertOutcomes == {"ok", "failed", "partial"}

\* Mutant of NextEventAfterFailure: a failed event ends the loop.
StopAfterFailure(n) == Len(events) + 1

\* Lines 881-890 and 899-905: the index the loop goes on with after event n
\* was dropped by validation or failed to insert.
NextEventAfterFailure(n) == n + 1

\* Lines 876-905 and 1030-1037: one turn of the loop of validate_and_insert.
\* lookup says whether the schools query of line 893 returns; when it raises,
\* the exception leaves validate_and_insert and process_post and is caught by
\* the handler of the batch loop.
EventStep(lookup, ins) ==
  /\ bpc = "events"
  /\ event_i <= Len(events)
  /\ LET e == events[event_i]
         p == posts[post_i]
         v == ValidateEvent(e, now)
     IN  IF v # "ok"
         THEN /\ attempts' = Append(attempts, <<event_i, v>>)
              /\ event_i' = NextEventAfterFailure(event_i)
              /\ UNCHANGED <<events_db, success_any, results, post_i, bpc, events>>
         ELSE IF e.location_name /\ lookup = "raises"
         THEN /\ results' = Append(results, ResultEntry(p, FALSE, TRUE, "parsed"))
              /\ post_i' = post_i + 1
              /\ bpc' = "loop"
              /\ events' = <<>>
              /\ event_i' = 1
              /\ success_any' = FALSE
              /\ attempts' = <<>>
              /\ UNCHANGED events_db
         ELSE /\ events_db' = [events_db EXCEPT ![p] =
                                 IF ins \in {"ok", "partial"} THEN @ + 1 ELSE @]
              /\ success_any' = (success_any \/ ins = "ok")
              /\ attempts' = Append(attempts, <<event_i, ins>>)
              /\ event_i' = IF ins = "ok" THEN event_i + 1
                            ELSE NextEventAfterFailure(event_i)
              /\ UNCHANGED <<results, post_i, bpc, events>>
  /\ stats' = NoStats
  /\ UNCHANGED insertVars
  /\ UNCHANGED <<posts_db, now, limitVars, queueVars, lock, pc,
                 estimated_tokens, current_time, usage, wake, admitted,
                 gatewayVars, posts_data, posts, old_post_ids, runs>>

\* Lines 933-939: process_post marks the post when validate_and_insert
\* returned True.
MarkWorthy(inserted) == inserted

\* Mutant of AllEventsHandled: the loop is left after the first event.
AllEventsHandledEarly == event_i > 1

\* Line 876: the loop of validate_and_insert has gone through all events.
AllEventsHandled == event_i > Len(events)

\* Lines 907-914, 933-946 and 1014: validate_and_insert returns success_any.
EventsDone ==
  /\ bpc = "events"
  /\ AllEventsHandled
  /\ IF MarkWorthy(success_any)
     THEN /\ bpc' = "mark"
          /\ UNCHANGED <<results, post_i, events, event_i, success_any, attempts>>
     ELSE /\ bpc' = "batch_mark"
          /\ results' = Append(results,
                          ResultEntry(posts[post_i], FALSE, FALSE, "parsed"))
          /\ UNCHANGED post_i
          /\ events' = <<>>
          /\ event_i' = 1
          /\ success_any' = FALSE
          /\ attempts' = <<>>
  /\ stats' = NoStats
  /\ UNCHANGED insertVars
  /\ UNCHANGED <<storeVars, now, limitVars, queueVars, lock, pc,
                 estimated_tokens, current_time, usage, wake, admitted,
                 gatewayVars, posts_data, posts, old_post_ids, runs>>

\* Lines 936 and 940-945: process_post marks the post and returns its result;
\* mark_post_processed swallows an update that raises.
MarkInProcessPost(ok) ==
  /\ bpc = "mark"
  /\ posts_db' = Marked(posts[post_i], ok)
  /\ results' = Append(results, ResultEntry(posts[post_i], TRUE, FALSE, "parsed"))
  /\ bpc' = "batch_mark"
  /\ events' = <<>>
  /\ event_i' = 1
  /\ success_any' = FALSE
  /\ attempts' = <<>>
  /\ stats' = NoStats
  /\ UNCHANGED insertVars
  /\ UNCHANGED <<events_db, now, limitVars, queueVars, lock, pc,
                 estimated_tokens, current_time, usage, wake, admitted,
                 gatewayVars, posts_data, posts, old_post_ids, post_i, runs>>

\* Mutant of ShouldMark: the batch loop marks every post it has a result for.
ShouldMarkAlways(entry) == TRUE

\* Line 1017: the test of the batch loop on the result of process_post.
ShouldMark(entry) == entry.extraction_success

\* Lines 1016-1018: the batch loop marks the post, once more, when its result
\* says extraction_success, and goes on to the next post.
MarkInBatch(ok) ==
  /\ bpc = "batch_mark"
  /\ posts_db' = IF ShouldMark(results[Len(results)])
                 THEN Marked(posts[post_i], ok) ELSE posts_db
  /\ post_i' = post_i + 1
  /\ bpc' = "loop"
  /\ stats' = NoStats
  /\ UNCHANGED insertVars
  /\ UNCHANGED <<events_db, now, limitVars, queueVars, lock, pc,
                 estimated_tokens, current_time, usage, wake, admitted,
                 gatewayVars, posts_data, posts, old_post_ids, results, events, event_i,
                 success_any, attempts, runs>>

\* Lines 1039-1044: the loop is over; the final usage is read and results is
\* returned.
FinishBatch ==
  /\ bpc = "loop"
  /\ post_i > Len(posts)
  /\ CanAcquire(MainThread)
  /\ LET c == CleanupOldEntries(now)
     IN  /\ requests_per_minute' = c.rpmQ
         /\ requests_per_day' = c.rpdQ
         /\ tokens_per_minute' = c.tpmQ
  /\ bpc' = "returned"
  /\ stats' = NoStats
  /\ UNCHANGED insertVars
  /\ UNCHANGED <<storeVars, now, limitVars, lock, pc, estimated_tokens,
                 current_time, usage, wake, admitted, gatewayVars, posts_data,
                 posts, old_post_ids, post_i, results, events, event_i,
                 success_any, attempts, runs>>

\* The process ends, by a crash in the middle of a batch or after a batch is
\* over, and a new process is started: everything but the store is as after
\* construction.
Restart ==
  /\ bpc # "idle"
  /\ OFFICIAL_RPM_LIMIT' = INIT_RPM_LIMIT
  /\ OFFICIAL_RPD_LIMIT' = INIT_RPD_LIMIT
  /\ OFFICIAL_TPM_LIMIT' = INIT_TPM_LIMIT
  /\ RPM_THRESHOLD' = Threshold(INIT_RPM_LIMIT)
  /\ RPD_THRESHOLD' = Threshold(INIT_RPD_LIMIT)
  /\ TPM_THRESHOLD' = Threshold(INIT_TPM_LIMIT)
  /\ requests_per_minute' = <<>>
  /\ requests_per_day' = <<>>
  /\ tokens_per_minute' = <<>>
  /\ lock' = None
  /\ pc' = [t \in Threads |-> "idle"]
  /\ estimated_tokens' = [t \in Threads |-> 0]
  /\ current_time' = [t \in Threads |-> 0]
  /\ usage' = [t \in Threads |-> NoUsage]
  /\ wake' = [t \in Threads |-> 0]
  /\ admitted' = [t \in Threads |-> "pending"]
  /\ attempt' = [t \in Threads |-> 0]
  /\ netCalls' = [t \in Threads |-> 0]
  /\ sleeps' = [t \in Threads |-> 0]
  /\ response' = [t \in Threads |-> NoResponse]
  /\ result' = [t \in Threads |-> None]
  /\ stats' = NoStats
  /\ UNCHANGED insertVars
  /\ bpc' = "idle"
  /\ posts_data' = <<>>
  /\ posts' = <<>>
  /\ old_post_ids' = <<>>
  /\ post_i' = 1
  /\ results' = <<>>
  /\ events' = <<>>
  /\ event_i' = 1
  /\ success_any' = FALSE
  /\ attempts' = <<>>
  /\ UNCHANGED <<storeVars, now, runs>>

\* Time passes where the batch waits: in the sleep of handle_429_response
\* and between two runs.
Elapse(tp) ==
  /\ pc[MainThread] = "backoff" \/ bpc \in {"idle", "returned", "aborted"}
  /\ Tick(tp)

NextBatch ==
  \/ \E post \in NewPosts : InsertPost(post)
  \/ \E batch_size \in BatchSizes, query_ok \in BOOLEAN : StartBatch(batch_size, query_ok)
  \/ \E ok \in BOOLEAN : MarkOld(ok)
  \/ ProcessStart
  \/ \E messages \in BatchRequests : Submit(messages)
  \/ Acquire(MainThread)
  \/ Evaluate(MainThread)
  \/ Record(MainThread)
  \/ \E r \in BatchResponses : NetworkCall(MainThread, r)
  \/ UpdateActualUsage(MainThread)
  \/ AfterBackoff(MainThread)
  \/ \E data \in ExtractedData : HandleResult(data)
  \/ \E lookup \in {"returns", "raises"}, ins \in InsertOutcomes : EventStep(lookup, ins)
  \/ EventsDone
  \/ \E ok \in BOOLEAN : MarkInProcessPost(ok)
  \/ \E ok \in BOOLEAN : MarkInBatch(ok)
  \/ FinishBatch
  \/ Restart
  \/ \E tp \in BatchTimePoints : Elapse(tp)

SpecBatch == Init /\ [][NextBatch]_vars

\* ================================================================== claims
Last(q) == q[Len(q)]

\* C1: when a per-minute threshold is reached, the daily one is not and the
\* computed wait is positive, the call sleeps, re-evaluates admission and
\* returns: the caller that re-enters admission after its sleep is never left
\* waiting for the lock, which it still holds itself and nothing can release.
C1_WaitingCallerReturns ==
  \A t \in Threads : ~(pc[t] = "admit" /\ lock = t)

\* C2: whenever check_and_wait_if_needed is about to record an entry and
\* return True, the per-minute window holds fewer than RPM_THRESHOLD requests
\* and its token sum plus the new estimate is below TPM_THRESHOLD.
C2_AdmissionBelowThresholds ==
  \A t \in Threads :
    pc[t] = "record" =>
      /\ usage[t].rpm < RPM_THRESHOLD
      /\ usage[t].tpm + estimated_tokens[t] < TPM_THRESHOLD

\* C3: a call whose request count and token total stay under the thresholds
\* is admitted without sleeping; a call made while the per-minute request
\* count has reached RPM_THRESHOLD (daily threshold not reached) is not
\* admitted before it has waited a strictly positive time.
C3_QuotaMonotonicity ==
  [][\A t \in Threads :
       (pc[t] = "check" /\ pc'[t] # "check") =>
         LET u == usage'[t]
             est == estimated_tokens[t]
         IN  /\ (u.rpm < RPM_THRESHOLD /\ u.rpd < RPD_THRESHOLD
                   /\ u.tpm + est < TPM_THRESHOLD) => pc'[t] = "record"
             /\ (u.rpm >= RPM_THRESHOLD /\ u.rpd < RPD_THRESHOLD) =>
                  (pc'[t] = "sleeping" /\ wake'[t] > now)]_vars

\* C4: when the purged per-day request count has reached RPD_THRESHOLD the
\* call neither sleeps nor records: it returns False, and no sleep has been
\* performed in a call that returned False, whatever the per-minute state.
C4_DailyRefusalWithoutSleep ==
  \A t \in Threads :
    /\ pc[t] \in {"sleeping", "record"} => usage[t].rpd < RPD_THRESHOLD
    /\ admitted[t] = "False" => (wake[t] = 0 /\ lock # t)

\* C4 witness: a refusal while the per-minute request threshold is reached
\* too and the oldest per-minute entry would have given a positive wait.
C4_Witness ==
  \E t \in Threads :
    /\ pc[t] = "refused"
    /\ usage[t].rpm >= RPM_THRESHOLD
    /\ requests_per_minute # <<>>
    /\ requests_per_minute[1][1] + 60 - current_time[t] > 0

\* C5: the step that returns True appends the entry (timestamp, estimated
\* tokens) at the end of all three queues, and the gateway reaches its
\* network call only through that step.
C5_ReservedBeforeCall ==
  [][\A t \in Threads :
       /\ (pc'[t] = "call" /\ pc[t] \notin {"call", "backoff"}) =>
            LET entry == <<current_time[t], estimated_tokens[t]>>
            IN  /\ pc[t] = "record"
                /\ netCalls'[t] = 0
                /\ requests_per_minute' = requests_per_minute \o <<entry>>
                /\ requests_per_day' = requests_per_day \o <<entry>>
                /\ tokens_per_minute' = tokens_per_minute \o <<entry>>
       /\ (netCalls'[t] > netCalls[t]) => (pc[t] = "call" /\ admitted[t] = "True")]_vars

\* C5 witness: one thread has been admitted and has not yet issued its
\* network call while the other thread's admission check has counted the
\* reservation and sleeps on it.
C5_Witness ==
  \E t \in Threads : \E u \in Threads \ {t} :
    /\ pc[t] = "call" /\ netCalls[t] = 0
    /\ pc[u] = "sleeping" /\ usage[u].rpm = 1
    /\ Len(requests_per_day) = 1

\* C6: the purge / read / compare / append steps of two callers never
\* interleave: at most one thread is inside them, and the usage a caller
\* read is still the state of the queues when it appends.
InCriticalSection(t) ==
  \/ pc[t] \in {"check", "record", "sleeping"}
  \/ (pc[t] = "admit" /\ wake[t] > 0)
C6_AdmissionsSerialized ==
  /\ \A t \in Threads : \A u \in Threads \ {t} :
       ~(InCriticalSection(t) /\ InCriticalSection(u))
  /\ \A t \in Threads :
       pc[t] = "record" =>
         /\ usage[t].rpm = Len(requests_per_minute)
         /\ usage[t].rpd = Len(requests_per_day)
         /\ usage[t].tpm = SumTokens(tokens_per_minute)

\* C6 witness: one thread is about to take the last free request slot while
\* the other waits for the lock.
C6_Witness ==
  \E t \in Threads : \E u \in Threads \ {t} :
    /\ pc[t] = "record" /\ usage[t].rpm + 1 = RPM_THRESHOLD
    /\ pc[u] = "admit"

\* C7: update_actual_usage(a) within 5 seconds of the most recent admission
\* sets the token field of the last entry of each of the three queues to a,
\* keeps its timestamp and position, and changes no other entry and no limit.
RewrittenLast(q, q2, a) ==
  /\ q # <<>>
  /\ Len(q2) = Len(q)
  /\ q2[Len(q)] = <<q[Len(q)][1], a>>
  /\ \A i \in 1..(Len(q) - 1) : q2[i] = q[i]
C7_UpdateRewritesLastEntry ==
  [][\A t \in Threads :
       (/\ pc[t] = "update" /\ pc'[t] = "done"
        /\ requests_per_day # <<>>
        /\ now - Last(requests_per_day)[1] < 5) =>
         /\ RewrittenLast(requests_per_minute, requests_per_minute', response[t].tokens)
         /\ RewrittenLast(requests_per_day, requests_per_day', response[t].tokens)
         /\ RewrittenLast(tokens_per_minute, tokens_per_minute', response[t].tokens)
         /\ limitVars' = limitVars]_vars

\* C7 witness: the call has returned after an update that rewrote the second
\* entry of every queue and left the first one alone.
C7_Witness ==
  \E t \in Threads :
    /\ pc[t] = "done" /\ response[t].tokens # NoTokens
    /\ \A q \in {requests_per_minute, requests_per_day, tokens_per_minute} :
         /\ Len(q) = 2
         /\ q[2][2] = response[t].tokens
         /\ q[1][2] # response[t].tokens
         /\ q[2][1] < now

\* C8: a usage read at time T counts no per-minute entry recorded at or
\* before T - 61 and no per-day entry recorded more than 24 hours before T.
CountSince(q, from) == Cardinality({i \in DOMAIN q : q[i][1] >= from})
RECURSIVE TokensSince(_, _)
TokensSince(q, from) ==
  IF q = <<>> THEN 0
  ELSE (IF q[1][1] >= from THEN q[1][2] ELSE 0) + TokensSince(Tail(q), from)
NoExpiredCounted(T, u) ==
  /\ u.rpm <= CountSince(requests_per_minute, T - 60)
  /\ u.tpm <= TokensSince(tokens_per_minute, T - 60)
  /\ u.rpd <= CountSince(requests_per_day, T - 86400)
C8_ExpiredNotCounted ==
  [][/\ \A t \in Threads :
          (pc[t] = "check" /\ pc'[t] # "check") =>
            NoExpiredCounted(current_time[t], usage'[t])
     /\ stats' # NoStats => NoExpiredCounted(stats'.time, stats')]_vars

\* C8 witness: get_usage_stats has just returned a per-minute usage of zero
\* although an entry recorded at least 61 seconds earlier is still held in
\* the per-day queue.
C8_Witness ==
  /\ stats # NoStats
  /\ stats.rpm = 0 /\ stats.tpm = 0 /\ stats.rpd > 0
  /\ stats.time - requests_per_day[1][1] >= 61

\* C9: when the tracker refuses admission the gateway returns None at once:
\* no network call is issued and no retry sleep is performed.
C9_RefusalReturnsNone ==
  \A t \in Threads :
    admitted[t] = "False" =>
      /\ pc[t] \in {"refused", "done"}
      /\ netCalls[t] = 0
      /\ sleeps[t] = 0
      /\ pc[t] = "done" => result[t] = None

\* C9 witness: the gateway has returned after a refusal.
C9_Witness ==
  \E t \in Threads : pc[t] = "done" /\ admitted[t] = "False"

\* C10: one extract call issues at most 3 network calls, returns the parsed
\* result when an attempt succeeds, and returns None after the third
\* throttled attempt (and only then gives up on throttling).
C10_AtMostThreeAttempts ==
  \A t \in Threads :
    /\ netCalls[t] <= 3
    /\ (pc[t] = "done" /\ response[t].kind = "ok" /\ response[t].json) =>
         result[t] = "parsed"
    /\ (pc[t] = "done" /\ response[t].kind = "throttled") =>
         (netCalls[t] = 3 /\ result[t] = None)

\* C10 witness: the call has returned after three throttled attempts.
C10_Witness ==
  \E t \in Threads :
    pc[t] = "done" /\ response[t].kind = "throttled" /\ netCalls[t] = 3

\* C11: after a throttling response the pause before the next attempt is the
\* Retry-After header read as integer seconds when the header is present and
\* parses, and the 60-second default when it is absent or does not parse; the
\* attempt that follows does not start before the pause is over.
C11_RetryPause ==
  [][\A t \in Threads :
       /\ (pc[t] = "call" /\ pc'[t] = "backoff" /\ response'[t].kind = "throttled") =>
            wake'[t] - now =
              (IF response'[t].header = "5" THEN 5
               ELSE IF response'[t].header \in {None, "soon"} THEN 60
               ELSE -1)
       /\ (pc[t] = "backoff" /\ pc'[t] # "backoff") => now >= wake[t]]_vars

\* C11 witness: a retry follows a throttling response that carried the header
\* "5", and the clock has reached the end of the pause.
C11_Witness ==
  \E t \in Threads :
    /\ pc[t] = "call" /\ attempt[t] = 1
    /\ response[t].kind = "throttled" /\ response[t].header = "5"
    /\ now = wake[t]

\* C12: an error of the network call that is not rate-limit-class, a response
\* body that is not valid JSON included, is not retried: no sleep follows it
\* and the call returns None.
C12_HardErrorNotRetried ==
  \A t \in Threads :
    (response[t].kind = "error" \/ (response[t].kind = "ok" /\ ~response[t].json)) =>
      /\ pc[t] \in {"update", "done"}
      /\ pc[t] = "done" => result[t] = None

\* ------------------------------------------------ claims about the batch
Range(s) == {s[j] : j \in DOMAIN s}
Unprocessed == {p \in DOMAIN posts_db : ~posts_db[p].processed}

\* The steps in which the handling of a well-formed gateway result ends
\* without an exception: the falsy object at line 926, or the return of
\* validate_and_insert.
WellFormedResultHandled ==
  \/ bpc = "extract" /\ pc[MainThread] = "done" /\ result[MainThread] # None
     /\ bpc' = "batch_mark"
  \/ bpc = "events" /\ bpc' \in {"mark", "batch_mark"}

\* C13: after the orchestrator has handled a well-formed gateway result for a
\* post it marks the post processed, when an event was inserted and also when
\* the result yields no event to insert.
C13_WellFormedResultMarksPost ==
  [][WellFormedResultHandled => bpc' = "mark"]_vars

\* The gateway is handed post p in this step.
Submitted(p) ==
  /\ bpc = "extract" /\ pc[MainThread] = "idle" /\ pc'[MainThread] = "admit"
  /\ posts[post_i] = p

\* C14: once a post has processed=true the orchestrator never sets the flag
\* back, never hands the post to the gateway and never inserts an event for it.
C14_ProcessedIsFinal ==
  [][\A p \in DOMAIN posts_db :
       posts_db[p].processed =>
         /\ posts_db'[p].processed
         /\ events_db'[p] = events_db[p]
         /\ ~Submitted(p)]_vars

\* C14 witness: a second run has gone through its posts while the store holds
\* a post that was processed, with an event inserted, before that run fetched.
C14_Witness ==
  /\ runs = 2 /\ bpc = "returned" /\ posts # <<>>
  /\ \E p \in DOMAIN posts_db :
       posts_db[p].processed /\ events_db[p] > 0 /\ p \notin Range(posts_data)

\* C15 as the specification states it: a post whose gateway call ended with
\* the third throttled attempt has processed=true when the batch returns.
C15_ExhaustedPostProcessed ==
  bpc = "returned" =>
    \A j \in DOMAIN results :
      results[j].gateway = "exhausted" => posts_db[results[j].post_id].processed

\* C15 amended: a post whose gateway call ended with the third throttled
\* attempt gets extraction_success False and keeps processed=false through the
\* batch, so the query of the next run selects it again.
C15_ExhaustedPostStaysUnprocessed ==
  \A j \in DOMAIN results :
    results[j].gateway = "exhausted" =>
      /\ ~results[j].extraction_success
      /\ results[j].post_id \in Unprocessed
      /\ bpc \in {"returned", "aborted"} =>
           results[j].post_id \in Range(FetchedRows(NoLimit))

\* C15 witness: a batch has returned with a post whose three attempts were
\* all throttled.
C15_Witness ==
  /\ bpc = "returned"
  /\ \E j \in DOMAIN results : results[j].gateway = "exhausted"

\* The step that starts a run fetched nothing, all unprocessed rows, or the
\* first unprocessed row.
FetchedFromUnprocessed ==
  runs' = runs + 1 =>
    \/ posts_data' = <<>>
    \/ posts_data' = FetchedRows(NoLimit)
    \/ posts_data' = FetchedRows(1)

FetchReturns ==
  /\ bpc \in {"idle", "returned", "aborted", "mark_old"}
  /\ bpc' \in {"loop", "returned"}
  /\ bpc = "mark_old" \/ runs' = runs + 1

\* C17: every fetched post created more than 30 days before now is marked
\* processed by fetch_unprocessed_posts and left out of the returned list; the
\* other fetched posts are returned in fetch order.
C17_OldPostsMarkedAndExcluded ==
  [][FetchReturns =>
       /\ \A p \in Range(posts_data') :
            (posts_db[p].parses /\ posts_db[p].created_at < now - RetentionWindow) =>
              (posts_db'[p].processed /\ p \notin Range(posts'))
       /\ posts' = SelectSeq(posts_data',
                     LAMBDA p : ~(posts_db[p].parses
                                  /\ posts_db[p].created_at < now - RetentionWindow))]_vars

\* C18: an exception raised while one post is processed never ends
\* run_extraction_batch: the batch returns a results list with one entry per
\* fetched post, in fetch order.
C18_ExceptionIsolated ==
  /\ bpc # "aborted"
  /\ bpc = "returned" =>
       /\ Len(results) = Len(posts)
       /\ \A j \in DOMAIN results : results[j].post_id = posts[j]

\* What validate_and_insert did with event number n was a failure of the
\* event: dropped by validation, or an insert that returned False.
Failed(what) == what \in {"past", "validation_failed", "failed", "partial"}

C20_MarkedAfterInsertions ==
  [][/\ \A p \in DOMAIN posts_db :
          (~posts_db[p].processed /\ posts_db'[p].processed /\ bpc # "mark_old") =>
            /\ bpc \in {"mark", "batch_mark"}
            /\ p = posts[post_i]
            /\ event_i > Len(events)
     /\ bpc \in {"extract", "events"} => posts[post_i] \in Unprocessed]_vars

\* C20 witness: a post has just been marked after both events of its answer
\* went through the loop.
C20_Witness ==
  /\ bpc = "batch_mark"
  /\ posts_db[posts[post_i]].processed
  /\ events_db[posts[post_i]] = 2

\* ---------------------------------------------- _validate_event, in detail
\* str.strip(): the characters it removes, and the two ends it works on.
Whitespace == {" "}

RECURSIVE LStrip(_)
LStrip(s) ==
  IF s # <<>> /\ Head(s) \in Whitespace THEN LStrip(Tail(s)) ELSE s

RECURSIVE RStrip(_)
RStrip(s) ==
  IF s # <<>> /\ s[Len(s)] \in Whitespace
  THEN RStrip(SubSeq(s, 1, Len(s) - 1))
  ELSE s

Strip(s) == RStrip(LStrip(s))

\* Lines 724-725, empty_to_none: None (shown as <<>>, which no stripped
\* non-blank string equals) for a missing or blank value, else the value
\* stripped.
EmptyToNone(x) == IF x.given THEN Strip(x.chars) ELSE <<>>

\* str(year) of line 711, digit by digit.
Digit(d) == <<"0", "1", "2", "3", "4", "5", "6", "7", "8", "9">>[d + 1]
Str(n) ==
  <<Digit(n \div 1000), Digit((n \div 100) % 10), Digit((n \div 10) % 10),
    Digit(n % 10)>>

\* needle in text, for Python strings.
Contains(text, needle) ==
  \E at \in 0..(Len(text) - Len(needle)) :
    \A j \in 1..Len(needle) : text[at + j] = needle[j]

\* Line 710: the f-string of name and description, a space between them.
EventText(raw) ==
  (IF raw.name.given THEN raw.name.chars ELSE <<>>) \o <<" ">>
    \o (IF raw.description.given THEN raw.description.chars ELSE <<>>)

\* Line 711: any(str(year) in event_text for year in range(2024, 2030)).
FIRST_YEAR == 2024
YEAR_STOP == 2030
HasExplicitYear(raw) ==
  \E year \in FIRST_YEAR..(YEAR_STOP - 1) : Contains(EventText(raw), Str(year))

\* Lines 646-657, _to_utc: None for a missing or unparseable string, else the
\* instant the wall-clock reading denotes, which is the reading less its
\* offset (a naive reading is taken for UTC).
ToUtc(d) ==
  IF d.kind = "stamp" THEN [present |-> TRUE, t |-> d.local - d.offset]
  ELSE NoUtc

\* isoformat() of a UTC datetime, as the fields the string holds from left
\* to right: the zero-padded date, then the zero-padded time of day.
IsoFormat(t) == <<t \div DAY_WINDOW, t % DAY_WINDOW>>

\* a < b for two such strings: Python compares them character by character,
\* which on zero-padded fields compares field by field.
IsoLess(a, b) == a[1] < b[1] \/ (a[1] = b[1] /\ a[2] < b[2])

\* Lines 675-676: the end after "if start and end and end < start: end = start".
ClampEndNever(start, end) == end
ClampEnd(start, end) ==
  IF start.present /\ end.present /\ IsoLess(IsoFormat(end.t), IsoFormat(start.t))
  THEN start
  ELSE end

\* The part of a raw event the checks of lines 678-733 read.
Summary(raw) ==
  [start |-> ToUtc(raw.start_datetime).t,
   has_start |-> ToUtc(raw.start_datetime).present,
   is_all_day |-> raw.is_all_day,
   text |-> EmptyToNone(raw.name) # <<>> \/ EmptyToNone(raw.description) # <<>>,
   year |-> HasExplicitYear(raw),
   location_name |-> FALSE]

\* The cased characters of the model's strings, for str.lower() and
\* str.title().
LOWERCASE ==
  <<"a", "b", "c", "d", "e", "f", "g", "h", "i", "j", "k", "l", "m", "n", "o",
    "p", "q", "r", "s", "t", "u", "v", "w", "x", "y", "z">>
UPPERCASE ==
  <<"A", "B", "C", "D", "E", "F", "G", "H", "I", "J", "K", "L", "M", "N", "O",
    "P", "Q", "R", "S", "T", "U", "V", "W", "X", "Y", "Z">>
IsLowerCase(ch) == \E n \in 1..Len(LOWERCASE) : LOWERCASE[n] = ch
IsUpperCase(ch) == \E n \in 1..Len(UPPERCASE) : UPPERCASE[n] = ch
IsCased(ch) == IsLowerCase(ch) \/ IsUpperCase(ch)
ToLower(ch) ==
  IF IsUpperCase(ch)
  THEN LOWERCASE[CHOOSE n \in 1..Len(UPPERCASE) : UPPERCASE[n] = ch]
  ELSE ch
ToUpper(ch) ==
  IF IsLowerCase(ch)
  THEN UPPERCASE[CHOOSE n \in 1..Len(LOWERCASE) : LOWERCASE[n] = ch]
  ELSE ch

\* str.lower().
Lower(s) == [j \in 1..Len(s) |-> ToLower(s[j])]

\* str.title(): a cased character is upper-cased when no cased character
\* stands before it, and lower-cased otherwise.
Title(s) ==
  [j \in 1..Len(s) |->
     IF j = 1 \/ ~IsCased(s[j - 1]) THEN ToUpper(s[j]) ELSE ToLower(s[j])]

\* Line 660: lstrip('#').
RECURSIVE LStripHash(_)
LStripHash(s) ==
  IF s # <<>> /\ Head(s) = "#" THEN LStripHash(Tail(s)) ELSE s

\* string.punctuation (but for the backquote, which a string of this module
\* cannot hold), and line 662, which deletes its characters.
PUNCTUATION ==
  {"!", "\"", "#", "$", "%", "&", "'", "(", ")", "*", "+", ",", "-", ".", "/",
   ":", ";", "<", "=", ">", "?", "@", "[", "\\", "]", "^", "_", "{", "|", "}",
   "~"}
NotPunctuation(ch) == ch \notin PUNCTUATION
RemovePunctuation(s) == SelectSeq(s, NotPunctuation)

\* Lines 663-664: the trailing 's' is cut from a string of more than three
\* characters that ends in 's' and not in 'ss'.
SingularAnyLength(s) ==
  IF s # <<>> /\ s[Len(s)] = "s" /\ (Len(s) < 2 \/ s[Len(s) - 1] # "s")
  THEN SubSeq(s, 1, Len(s) - 1)
  ELSE s
Singular(s) ==
  IF Len(s) > 3 /\ s[Len(s)] = "s" /\ s[Len(s) - 1] # "s"
  THEN SubSeq(s, 1, Len(s) - 1)
  ELSE s

\* Lines 659-665, _normalize_tag.
NormalizeTag(tag) ==
  Title(Singular(RemovePunctuation(LStripHash(Strip(tag)))))

\* An element of a categories or tags list of the model's JSON: a string, a
\* dict whose name (or tag) is chars, or a value of another type.
StrEntry(chars) == [type |-> "str", chars |-> chars]
DictEntry(chars) == [type |-> "dict", chars |-> chars]
OtherEntry == [type |-> "other", chars |-> <<>>]

\* Line 643, and how the model writes the enum's names out in characters.
CATEGORY_ENUM == {"event", "club", "sport", "deadline", "meeting"}
Spelling ==
  [c \in CATEGORY_ENUM |->
     CASE c = "event" -> <<"e", "v", "e", "n", "t">>
       [] c = "club" -> <<"c", "l", "u", "b">>
       [] c = "sport" -> <<"s", "p", "o", "r", "t">>
       [] c = "deadline" -> <<"d", "e", "a", "d", "l", "i", "n", "e">>
       [] c = "meeting" -> <<"m", "e", "e", "t", "i", "n", "g">>]

\* Lines 754 and 771: c if c in CATEGORY_ENUM else 'event'.
CoerceCategory(name) ==
  IF \E c \in CATEGORY_ENUM : Spelling[c] = name
  THEN CHOOSE c \in CATEGORY_ENUM : Spelling[c] = name
  ELSE "event"

\* Lines 749-753 and 766-770: the elements of a list that give a category,
\* and the name each gives.
YieldsEntry(c) ==
  \/ c.type = "dict" /\ c.chars # <<>>
  \/ c.type = "str" /\ Strip(c.chars) # <<>>
CategoryName(c) ==
  IF c.type = "dict" THEN Lower(c.chars) ELSE Lower(Strip(c.chars))
CategoriesOf(list) ==
  LET kept == SelectSeq(list, YieldsEntry)
  IN [j \in 1..Len(kept) |-> CoerceCategory(CategoryName(kept[j]))]

\* Lines 758-762 and 774-778: the same for the tags.
TagOf(t) ==
  IF t.type = "dict" THEN NormalizeTag(t.chars) ELSE NormalizeTag(Strip(t.chars))
TagsOf(list) ==
  LET kept == SelectSeq(list, YieldsEntry)
  IN [j \in 1..Len(kept) |-> TagOf(kept[j])]

\* Lines 781-782: list(dict.fromkeys(xs)), the first occurrences in order.
RECURSIVE Dedupe(_)
Dedupe(s) ==
  IF s = <<>> THEN <<>>
  ELSE LET front == Dedupe(SubSeq(s, 1, Len(s) - 1))
       IN IF \E j \in 1..Len(front) : front[j] = s[Len(s)]
          THEN front
          ELSE Append(front, s[Len(s)])

\* Lines 747-782: the entries of the top-level list, or those of the event's
\* own list when the top-level one gives none, without repetitions.
CleanCategoriesRepeating(raw, top) ==
  IF CategoriesOf(top) # <<>> THEN CategoriesOf(top)
  ELSE CategoriesOf(raw.categories)

CleanCategories(raw, top) ==
  Dedupe(IF CategoriesOf(top) # <<>> THEN CategoriesOf(top)
         ELSE CategoriesOf(raw.categories))

CleanTags(raw, top) ==
  Dedupe(IF TagsOf(top) # <<>> THEN TagsOf(top) ELSE TagsOf(raw.event_tags))

\* Line 736: the placeholder name.
UntitledEvent ==
  <<"U", "n", "t", "i", "t", "l", "e", "d", " ", "E", "v", "e", "n", "t">>

\* Lines 735-786: the cleaned record of an accepted event.
CleanedOfNoDefault(raw, top_categories, top_tags) ==
  [name |-> EmptyToNone(raw.name),
   start_datetime |-> ToUtc(raw.start_datetime),
   end_datetime |-> ClampEnd(ToUtc(raw.start_datetime), ToUtc(raw.end_datetime)),
   is_all_day |-> raw.is_all_day,
   categories |-> CleanCategories(raw, top_categories),
   tags |-> CleanTags(raw, top_tags)]

CleanedOf(raw, top_categories, top_tags) ==
  [name |-> IF EmptyToNone(raw.name) # <<>> THEN EmptyToNone(raw.name)
            ELSE UntitledEvent,
   start_datetime |-> ToUtc(raw.start_datetime),
   end_datetime |-> ClampEnd(ToUtc(raw.start_datetime), ToUtc(raw.end_datetime)),
   is_all_day |-> raw.is_all_day,
   categories |-> CleanCategories(raw, top_categories),
   tags |-> CleanTags(raw, top_tags)]

\* ------------------------------------------ validate_and_insert, by steps
MaxRows == 2

otherVars ==
  <<limitVars, queueVars, lock, pc, estimated_tokens, current_time, usage,
    wake, admitted, gatewayVars, stats, batchVars>>

\* Line 876: the loop of validate_and_insert takes the next event of the
\* model's JSON, with the top-level categories and tags.
ReceiveEvent(r, raw, top_categories, top_tags) ==
  /\ run[r].ipc = "idle"
  /\ Len(event_rows) < MaxRows
  /\ run' = [run EXCEPT ![r] = [IdleRun EXCEPT !.ipc = "validate", !.raw = raw,
                                  !.top_categories = top_categories,
                                  !.top_tags = top_tags]]
  /\ UNCHANGED <<now, linkVars, otherVars>>

\* Line 877: _validate_event, which reads the clock at lines 682 and 706.
Validate(r) ==
  /\ run[r].ipc = "validate"
  /\ LET reason == ValidateEvent(Summary(run[r].raw), now)
     IN run' = [run EXCEPT ![r] =
                  [@ EXCEPT !.ipc = "decided", !.reason = reason,
                            !.validated_at = now,
                            !.cleaned = IF reason = "ok"
                                        THEN CleanedOf(run[r].raw,
                                                       run[r].top_categories,
                                                       run[r].top_tags)
                                        ELSE NoCleaned]]
  /\ UNCHANGED <<now, linkVars, otherVars>>

\* Lines 878-886: a rejected event is counted and skipped.
SkipEvent(r) ==
  /\ run[r].ipc = "decided"
  /\ run[r].reason # "ok"
  /\ run' = [run EXCEPT ![r] = IdleRun]
  /\ UNCHANGED <<now, linkVars, otherVars>>

\* Lines 856-858: an exception inside _insert_transaction is printed and the
\* function returns False; nothing written so far is undone.
ReturnFalseAndGoOn(rec, why) == [rec EXCEPT !.failure = why]
ReturnFalse(rec, why) ==
  [rec EXCEPT !.ipc = "returned", !.ret = "False", !.failure = why]

\* Lines 846-855: on to the tags, and to "return True" after the last one.
AfterLinks(rec) ==
  IF rec.tags # <<>> THEN [rec EXCEPT !.ipc = "link_tags"]
  ELSE [rec EXCEPT !.ipc = "returned", !.ret = "True"]

\* Line 837: on to the links of the ids _get_or_create_category_ids returned.
AfterCategories(rec) ==
  IF rec.cat_ids # <<>>
  THEN [rec EXCEPT !.ipc = "link_categories", !.links = rec.cat_ids]
  ELSE AfterLinks(rec)

\* Line 790: the next name of the loop, or line 802 after the last one.
NextCategory(rec) ==
  IF rec.names # <<>> THEN [rec EXCEPT !.ipc = "categories"]
  ELSE AfterCategories(rec)

\* Lines 827-834: the insert into events.  The store answers with the new
\* row, with no data, or with an error.
EventOutcomes == {"row", "nodata", "raises"}
InsertEventRow(r, outcome) ==
  /\ run[r].ipc = "decided"
  /\ run[r].reason = "ok"
  /\ outcome \in EventOutcomes
  /\ IF outcome = "row"
     THEN /\ event_rows' =
               Append(event_rows,
                      [start_datetime |-> run[r].cleaned.start_datetime,
                       is_all_day |-> run[r].cleaned.is_all_day])
          /\ run' = [run EXCEPT ![r] =
                       NextCategory([@ EXCEPT !.event_id = Len(event_rows) + 1,
                                              !.names = run[r].cleaned.categories,
                                              !.tags = run[r].cleaned.tags])]
     ELSE /\ run' = [run EXCEPT ![r] = ReturnFalse(@, "events_insert")]
          /\ UNCHANGED event_rows
  /\ UNCHANGED <<now, categories_db, event_categories, event_tag_rows, otherVars>>

\* Line 792: the ids of the rows of categories with this name.
FindCategoryNone(name) == {}
FindCategory(name) ==
  {id \in 1..Len(categories_db) : categories_db[id] = name}

\* Lines 792-794: the select; res.data[0] is the first row found.  An error
\* raised here leaves _get_or_create_category_ids and is caught at line 856.
LookupOutcomes == {"answers", "raises"}
LookupCategory(r, outcome) ==
  /\ run[r].ipc = "categories"
  /\ ~run[r].creating
  /\ outcome \in LookupOutcomes
  /\ LET found == FindCategory(Head(run[r].names))
         first == CHOOSE id \in found : \A other \in found : id <= other
     IN run' = [run EXCEPT ![r] =
                  IF outcome = "raises" THEN ReturnFalse(@, "category_lookup")
                  ELSE IF found # {}
                       THEN NextCategory([@ EXCEPT !.cat_ids = Append(@, first),
                                                   !.names = Tail(@)])
                       ELSE [@ EXCEPT !.creating = TRUE]]
  /\ UNCHANGED <<now, linkVars, otherVars>>

\* Lines 797-801: the insert into categories.  The store answers with the
\* new row, with no data (the name is printed and left out), or with an
\* error, which again is caught only at line 856.
CreateOutcomes == {"row", "nodata", "raises"}
CreateCategory(r, outcome) ==
  /\ run[r].ipc = "categories"
  /\ run[r].creating
  /\ outcome \in CreateOutcomes
  /\ IF outcome = "row"
     THEN /\ categories_db' = Append(categories_db, Head(run[r].names))
          /\ run' = [run EXCEPT ![r] =
                       NextCategory([@ EXCEPT
                                       !.cat_ids = Append(@, Len(categories_db) + 1),
                                       !.names = Tail(@), !.creating = FALSE])]
     ELSE /\ run' = [run EXCEPT ![r] =
                       IF outcome = "raises"
                       THEN ReturnFalse(@, "category_create")
                       ELSE NextCategory([@ EXCEPT !.names = Tail(@),
                                                   !.creating = FALSE])]
          /\ UNCHANGED categories_db
  /\ UNCHANGED <<now, event_rows, event_categories, event_tag_rows, otherVars>>

\* Lines 840-843 and 849-852: what the except clause of a link does with an
\* error: a message with "duplicate key" in it is dropped, any other is
\* raised again.
LinkError(rec, outcome, why, rest) ==
  IF outcome = "duplicate" THEN rest ELSE ReturnFalse(rec, why)

\* Lines 837-843: one insert into event_categories.
LinkOutcomes == {"linked", "duplicate", "error"}
LinkCategory(r, outcome) ==
  /\ run[r].ipc = "link_categories"
  /\ outcome \in LinkOutcomes
  /\ LET rest == [run[r] EXCEPT !.links = Tail(@)]
         done == IF rest.links # <<>> THEN rest ELSE AfterLinks(rest)
     IN IF outcome = "linked"
        THEN /\ event_categories' =
                  event_categories \cup {<<run[r].event_id, Head(run[r].links)>>}
             /\ run' = [run EXCEPT ![r] = done]
        ELSE /\ run' = [run EXCEPT ![r] =
                          LinkError(@, outcome, "category_link", done)]
             /\ UNCHANGED event_categories
  /\ UNCHANGED <<now, categories_db, event_rows, event_tag_rows, otherVars>>

\* Lines 846-852: one insert into event_tags.
LinkTag(r, outcome) ==
  /\ run[r].ipc = "link_tags"
  /\ outcome \in LinkOutcomes
  /\ LET rest == [run[r] EXCEPT !.tags = Tail(@)]
         done == IF rest.tags # <<>> THEN rest
                 ELSE [rest EXCEPT !.ipc = "returned", !.ret = "True"]
     IN IF outcome = "linked"
        THEN /\ event_tag_rows' =
                  event_tag_rows \cup {<<run[r].event_id, Head(run[r].tags)>>}
             /\ run' = [run EXCEPT ![r] = done]
        ELSE /\ run' = [run EXCEPT ![r] = LinkError(@, outcome, "tag_link", done)]
             /\ UNCHANGED event_tag_rows
  /\ UNCHANGED <<now, categories_db, event_rows, event_categories, otherVars>>

\* Lines 902-912: validate_and_insert takes the return value and goes on.
ReturnInsert(r) ==
  /\ run[r].ipc = "returned"
  /\ run' = [run EXCEPT ![r] = IdleRun]
  /\ UNCHANGED <<now, linkVars, otherVars>>

\* ------------------------------------------------- inputs of the checks
Txt(chars) == [given |-> TRUE, chars |-> chars]
Stamp(local, offset) == [kind |-> "stamp", local |-> local, offset |-> offset]
BadDate == [kind |-> "bad", local |-> 0, offset |-> 0]
HOUR == MINUTE_WINDOW * MINUTE_WINDOW

NameSamples ==
  {NoText, Txt(<<>>), Txt(<<" ", " ">>), Txt(<<" ", "G", "o", " ">>),
   Txt(<<"G", "a", "l", "a", " ", "2", "0", "2", "6">>)}

DescriptionSamples ==
  {NoText, Txt(<<" ">>), Txt(<<"F", "u", "n">>),
   Txt(<<"b", "y", " ", "2", "0", "2", "9">>),
   Txt(<<"b", "y", " ", "2", "0", "3", "0">>)}

\* The clock readings of the validation checks: the start of day 0, and ten
\* seconds into day 1.
ValidateTimePoints == {DAY_WINDOW + 10}

StartLocals ==
  {-1, 0, DAY_WINDOW - 1, DAY_WINDOW, DAY_WINDOW + 10,
   HORIZON_DAYS * DAY_WINDOW + 12 * HOUR,
   (HORIZON_DAYS + 1) * DAY_WINDOW + 12 * HOUR}

StartDates ==
  {NoDate, BadDate} \cup {Stamp(local, offset) : local \in StartLocals,
                                                 offset \in {0, HOUR}}

EndDates ==
  {NoDate, BadDate, Stamp(-5, 0), Stamp(DAY_WINDOW + 5, 0),
   Stamp(DAY_WINDOW + 5, HOUR), Stamp(200 * DAY_WINDOW, 0)}

\* Words of the model's lists.
WordClub == <<"c", "l", "u", "b">>
WordSport == <<"s", "p", "o", "r", "t">>
WordSale == <<"s", "a", "l", "e", "!">>

EmbeddedLists ==
  {<<<<>>, <<>>>>,
   <<<<StrEntry(WordSport)>>, <<StrEntry(<<"#">> \o WordClub \o <<"s">>)>>>>}
TopLists ==
  {<<<<>>, <<>>>>,
   <<<<StrEntry(<<"C", "l", "u", "b">>), StrEntry(<<"p", "a", "r", "t", "y">>),
       StrEntry(WordClub)>>,
     <<StrEntry(<<"#">> \o WordClub \o <<"s">>), StrEntry(WordClub)>>>>}

RawEvents ==
  {[start_datetime |-> sd, end_datetime |-> ed, is_all_day |-> ad, name |-> nm,
    description |-> ds, categories |-> emb[1], event_tags |-> emb[2]] :
     sd \in StartDates, ed \in EndDates, ad \in BOOLEAN, nm \in NameSamples,
     ds \in DescriptionSamples, emb \in EmbeddedLists}

\* _validate_event on every raw event at every clock reading; an accepted
\* event goes on to an insert the store answers with no data.
NextValidate ==
  \/ /\ run["r1"].ipc = "idle"
     /\ \E raw \in RawEvents, top \in TopLists :
          ReceiveEvent("r1", raw, top[1], top[2])
  \/ Validate("r1")
  \/ SkipEvent("r1")
  \/ InsertEventRow("r1", "nodata")
  \/ ReturnInsert("r1")
  \/ \E tp \in ValidateTimePoints : Tick(tp)

SpecValidate == Init /\ [][NextValidate]_vars

\* The events, categories and tags of the insertion checks.
InsTimed ==
  [NoRaw EXCEPT !.start_datetime = Stamp(20, 0), !.name = Txt(<<"G", "o">>)]
InsAllDay ==
  [NoRaw EXCEPT !.start_datetime = Stamp(0, 0), !.is_all_day = TRUE,
                !.name = Txt(<<"G", "o">>)]
InsNoStart == [NoRaw EXCEPT !.description = Txt(<<"F", "u", "n">>)]
InsOver ==
  [NoRaw EXCEPT !.start_datetime = Stamp(-1, 0), !.name = Txt(<<"G", "o">>)]
InsertEvents == {InsTimed, InsAllDay, InsNoStart, InsOver}
InsertCategories ==
  {<<>>, <<StrEntry(WordClub)>>, <<StrEntry(WordClub), StrEntry(WordSport)>>}
InsertTags ==
  {<<>>, <<StrEntry(WordClub)>>, <<StrEntry(WordClub), StrEntry(WordSale)>>}
InsertTimePoints == {30, DAY_WINDOW + 10}

\* One extraction run against the store.
NextInsert ==
  \/ \E raw \in InsertEvents, cats \in InsertCategories, tags \in InsertTags :
       ReceiveEvent("r1", raw, cats, tags)
  \/ Validate("r1")
  \/ SkipEvent("r1")
  \/ \E outcome \in EventOutcomes : InsertEventRow("r1", outcome)
  \/ \E outcome \in LookupOutcomes : LookupCategory("r1", outcome)
  \/ \E outcome \in CreateOutcomes : CreateCategory("r1", outcome)
  \/ \E outcome \in LinkOutcomes : LinkCategory("r1", outcome)
  \/ \E outcome \in LinkOutcomes : LinkTag("r1", outcome)
  \/ ReturnInsert("r1")
  \/ \E tp \in InsertTimePoints : Tick(tp)

SpecInsert == Init /\ [][NextInsert]_vars

\* Two extraction runs against the same store, their steps interleaved.
NextInsertConcurrent ==
  \E r \in Runs :
    \/ \E tags \in {<<>>, <<StrEntry(WordClub)>>} :
         ReceiveEvent(r, InsNoStart, <<StrEntry(WordClub)>>, tags)
    \/ Validate(r)
    \/ \E outcome \in EventOutcomes : InsertEventRow(r, outcome)
    \/ \E outcome \in LookupOutcomes : LookupCategory(r, outcome)
    \/ \E outcome \in CreateOutcomes : CreateCategory(r, outcome)
    \/ \E outcome \in LinkOutcomes : LinkCategory(r, outcome)
    \/ \E outcome \in LinkOutcomes : LinkTag(r, outcome)
    \/ ReturnInsert(r)

SpecInsertConcurrent == Init /\ [][NextInsertConcurrent]_vars

\* ------------------------------------------------ claims on validation
\* The instant a raw date denotes, and the UTC calendar day of an instant.
Instant(d) == d.local - d.offset
UtcDate(t) == t \div DAY_WINDOW

\* A start that lies before time t: by the clock for a timed event, by the
\* calendar day for an all-day one.
StartsBefore(start, all_day, t) ==
  IF all_day THEN UtcDate(start) < UtcDate(t) ELSE start < t

Decided(r) == run[r].ipc = "decided"

\* C27: _validate_event answers 'past' exactly for the events with a
\* parseable start that are timed and start strictly before the time of
\* validation, or all-day and dated strictly before that time's UTC date.
C27_PastExactly ==
  \A r \in Runs :
    Decided(r) =>
      (run[r].reason = "past" <=>
         /\ run[r].raw.start_datetime.kind = "stamp"
         /\ StartsBefore(Instant(run[r].raw.start_datetime),
                         run[r].raw.is_all_day, run[r].validated_at))

\* An all-day event dated today whose midnight is already behind the clock
\* has been validated and was not rejected as past.
C27_Witness ==
  \E r \in Runs :
    /\ Decided(r)
    /\ run[r].raw.is_all_day
    /\ run[r].raw.start_datetime.kind = "stamp"
    /\ Instant(run[r].raw.start_datetime) < run[r].validated_at
    /\ UtcDate(Instant(run[r].raw.start_datetime)) = UtcDate(run[r].validated_at)
    /\ run[r].reason # "past"

\* The name or description x holds a year literal from 2024 to 2029.
MentionsYear(x) ==
  /\ x.given
  /\ \E year \in FIRST_YEAR..(YEAR_STOP - 1) : Contains(x.chars, Str(year))

NoNameNoDescription(raw) ==
  EmptyToNone(raw.name) = <<>> /\ EmptyToNone(raw.description) = <<>>

\* C28: an event that passes the past check is rejected with
\* 'validation_failed' if and only if its start is more than 120 days after
\* the time of validation and neither name nor description holds a year from
\* 2024 to 2029, or it has neither name nor description.
C28_HorizonExactly ==
  \A r \in Runs :
    (Decided(r) /\ run[r].reason # "past") =>
      (run[r].reason = "validation_failed" <=>
         \/ /\ run[r].raw.start_datetime.kind = "stamp"
            /\ Instant(run[r].raw.start_datetime) - run[r].validated_at
                 > HORIZON_DAYS * DAY_WINDOW
            /\ ~MentionsYear(run[r].raw.name)
            /\ ~MentionsYear(run[r].raw.description)
         \/ NoNameNoDescription(run[r].raw))

Accepted(r) == Decided(r) /\ run[r].reason = "ok"

\* C29: an accepted event with both dates parsed has a cleaned end that is
\* not before its cleaned start: the cleaned start is the raw start's
\* instant, and the cleaned end is that same instant when the raw end's
\* instant precedes it, else the raw end's instant.
C29_EndNotBeforeStart ==
  \A r \in Runs :
    (/\ Accepted(r)
     /\ run[r].raw.start_datetime.kind = "stamp"
     /\ run[r].raw.end_datetime.kind = "stamp") =>
      LET start == Instant(run[r].raw.start_datetime)
          end == Instant(run[r].raw.end_datetime)
          cleaned == run[r].cleaned
      IN /\ cleaned.start_datetime.present /\ cleaned.end_datetime.present
         /\ cleaned.end_datetime.t >= cleaned.start_datetime.t
         /\ cleaned.start_datetime.t = start
         /\ cleaned.end_datetime.t = IF end < start THEN start ELSE end

\* An accepted event whose end reads later on its own clock than the start
\* does, but denotes an earlier instant, and so was clamped.
C29_Witness ==
  \E r \in Runs :
    /\ Accepted(r)
    /\ run[r].raw.start_datetime.kind = "stamp"
    /\ run[r].raw.end_datetime.kind = "stamp"
    /\ run[r].raw.end_datetime.local > run[r].raw.start_datetime.local
    /\ Instant(run[r].raw.end_datetime) < Instant(run[r].raw.start_datetime)
    /\ run[r].cleaned.end_datetime = run[r].cleaned.start_datetime

\* C30 as stated: every event whose name and description are both missing
\* or blank is rejected with 'validation_failed', an event with a non-blank
\* description and no name is accepted with the name 'Untitled Event', and
\* every accepted event has a non-empty name.
C30_BlankRejectedAsInvalid ==
  \A r \in Runs :
    Decided(r) =>
      /\ NoNameNoDescription(run[r].raw) => run[r].reason = "validation_failed"
      /\ (/\ EmptyToNone(run[r].raw.name) = <<>>
          /\ EmptyToNone(run[r].raw.description) # <<>>) =>
           (run[r].reason = "ok" /\ run[r].cleaned.name = UntitledEvent)
      /\ run[r].reason = "ok" => run[r].cleaned.name # <<>>

\* The past check and the horizon check let the event through.
PassesDateChecks(r) ==
  ~(/\ run[r].raw.start_datetime.kind = "stamp"
    /\ \/ StartsBefore(Instant(run[r].raw.start_datetime),
                       run[r].raw.is_all_day, run[r].validated_at)
       \/ /\ UtcDate(Instant(run[r].raw.start_datetime) - run[r].validated_at)
               > HORIZON_DAYS
          /\ ~HasExplicitYear(run[r].raw))

\* C30, amended: an event whose name and description are both missing or
\* blank is never accepted, and is rejected with 'validation_failed' when it
\* passes the date checks; an event with a non-blank description and no name
\* that passes the date checks is accepted with the name 'Untitled Event';
\* every accepted event has a non-empty name.
C30_BlankNeverAccepted ==
  \A r \in Runs :
    Decided(r) =>
      /\ NoNameNoDescription(run[r].raw) =>
           /\ run[r].reason # "ok"
           /\ PassesDateChecks(r) => run[r].reason = "validation_failed"
      /\ (/\ EmptyToNone(run[r].raw.name) = <<>>
          /\ EmptyToNone(run[r].raw.description) # <<>>
          /\ PassesDateChecks(r)) =>
           (run[r].reason = "ok" /\ run[r].cleaned.name = UntitledEvent)
      /\ run[r].reason = "ok" => run[r].cleaned.name # <<>>

\* An event with a blank name and a description of its own was accepted
\* under the placeholder name.
C30_Witness ==
  \E r \in Runs :
    /\ Accepted(r)
    /\ run[r].raw.name.given
    /\ run[r].raw.name.chars # <<>>
    /\ EmptyToNone(run[r].raw.name) = <<>>
    /\ EmptyToNone(run[r].raw.description) # <<>>
    /\ run[r].cleaned.name = UntitledEvent

\* ------------------------------------------------- claims on insertion
Returned(r) == run[r].ipc = "returned"
LinkFailed(r) == run[r].failure \in {"category_link", "tag_link"}

\* C21: _insert_transaction returns True whenever the event row was
\* inserted and the category ids were obtained, whatever the link inserts
\* afterwards answered.
C21_TrueOnceRowInserted ==
  \A r \in Runs :
    (/\ Returned(r)
     /\ run[r].event_id # 0
     /\ run[r].failure \notin {"category_lookup", "category_create"}) =>
      run[r].ret = "True"

\* C22: after a link insert failed with an error other than a duplicate key,
\* _insert_transaction has returned False, the event row is still in the
\* events table, the failing link and the links after it (the tags
\* included) are not in the store, and the failing step removed nothing.
C22_NoRollback ==
  /\ [](\A r \in Runs :
          LinkFailed(r) =>
            /\ Returned(r) /\ run[r].ret = "False"
            /\ run[r].event_id \in 1..Len(event_rows)
            /\ \A cid \in Range(run[r].links) :
                 <<run[r].event_id, cid>> \notin event_categories
            /\ \A tag \in Range(run[r].tags) :
                 <<run[r].event_id, tag>> \notin event_tag_rows)
  /\ [][\A r \in Runs :
          (~LinkFailed(r) /\ LinkFailed(r)') => UNCHANGED linkVars]_vars

\* The second category link of an event failed: the first link is in the
\* store, the second is not.
C22_Witness ==
  \E r \in Runs :
    /\ run[r].failure = "category_link"
    /\ Len(run[r].cat_ids) = 2
    /\ Len(run[r].links) = 1
    /\ <<run[r].event_id, run[r].cat_ids[1]>> \in event_categories
    /\ run[r].tags # <<>>

NoDuplicateNames ==
  \A a, b \in 1..Len(categories_db) :
    categories_db[a] = categories_db[b] => a = b

\* C23: with one process, the categories table never holds two rows of one
\* name, and every id _get_or_create_category_ids returns for a name is the
\* id of the row of that name, so two calls with a name return one id.
C23_OneRowPerName ==
  /\ []NoDuplicateNames
  /\ [][\A r \in Runs :
          (/\ run[r].ipc = "categories"
           /\ Len(run'[r].cat_ids) > Len(run[r].cat_ids)) =>
            categories_db'[run'[r].cat_ids[Len(run'[r].cat_ids)]]
              = Head(run[r].names)]_vars

\* The first event created the category and linked it; the second event's
\* call found that row and returned its id.
C23_Witness ==
  \E r \in Runs :
    /\ categories_db = <<"club">>
    /\ <<1, 1>> \in event_categories
    /\ run[r].event_id = 2
    /\ run[r].cat_ids = <<1>>

\* C24: with two runs at work on one new category name, the categories
\* table never holds two rows of the name, no run's insertion ends because
\* the other run's row was there first, and the runs get the same id.
C24_ConcurrentCreateNoDuplicate ==
  /\ NoDuplicateNames
  /\ \A r \in Runs :
       ~(/\ run[r].failure = "category_create"
         /\ Head(run[r].names) \in Range(categories_db))
  /\ \A r, q \in Runs :
       (run[r].cat_ids # <<>> /\ run[q].cat_ids # <<>>) =>
         run[r].cat_ids = run[q].cat_ids

\* C25: a failed creation of a category, by no data or by an error, never
\* makes _insert_transaction return False.
C25_CreateFailureOmitsCategory ==
  \A r \in Runs : run[r].failure # "category_create"

\* C26: the start of a row just inserted into events is not before the time
\* of the insertion, by the clock for a timed event and by the UTC date for
\* an all-day one.
C26_NoPastRowAtInsertion ==
  [][\A r \in Runs :
       (Decided(r) /\ run'[r].event_id # 0) =>
         LET row == event_rows'[run'[r].event_id]
         IN row.start_datetime.present =>
              ~StartsBefore(row.start_datetime.t, row.is_all_day, now)]_vars

\* ------------------------------------------- the lists of _validate_event
MaxListLen == 2

CategoryEntrySamples ==
  {StrEntry(<<"C", "l", "u", "b">>), StrEntry(WordClub), DictEntry(WordSport),
   StrEntry(<<"p", "a", "r", "t", "y">>), StrEntry(<<" ">>)}

TagEntrySamples ==
  {StrEntry(<<"#", "T", "r", "y", "o", "u", "t", "s">>),
   StrEntry(<<"t", "r", "y", "o", "u", "t">>),
   StrEntry(<<"G", "l", "a", "s", "s">>),
   DictEntry(<<"#", "J", "V">>),
   StrEntry(<<" ", "g", "a", "s", " ">>),
   StrEntry(<<"#", "#", "a", ".", "s", " ", "3", "d", "s">>),
   StrEntry(<<" ">>),
   OtherEntry}

\* An accepted event without lists of its own, one with them, and a rejected
\* one.
ListEvents ==
  {InsNoStart, InsOver,
   [InsNoStart EXCEPT !.categories = <<StrEntry(WordSport), StrEntry(WordSport)>>,
                      !.event_tags = <<StrEntry(WordSale), DictEntry(WordClub)>>]}

\* _validate_event on every pair of top-level lists.
NextLists ==
  \/ /\ run["r1"].ipc = "idle"
     /\ \E raw \in ListEvents,
           top_categories \in SeqsUpTo(CategoryEntrySamples, MaxListLen),
           top_tags \in SeqsUpTo(TagEntrySamples, MaxListLen) :
          ReceiveEvent("r1", raw, top_categories, top_tags)
  \/ Validate("r1")
  \/ SkipEvent("r1")
  \/ InsertEventRow("r1", "nodata")
  \/ ReturnInsert("r1")

SpecLists == Init /\ [][NextLists]_vars

\* ----------------------------------------------------- claims on the lists
NoRepeats(q) == \A a, b \in 1..Len(q) : q[a] = q[b] => a = b

\* The position at which x is first seen in q.
FirstSeen(q, x) == CHOOSE a \in 1..Len(q) : q[a] = x /\ \A b \in 1..(a - 1) : q[b] # x

\* out holds the values of source, each once, in the order they are first
\* seen in source.
InFirstSeenOrder(out, source) ==
  /\ NoRepeats(out)
  /\ Range(out) = Range(source)
  /\ \A a, b \in 1..Len(out) :
       a < b => FirstSeen(source, out[a]) < FirstSeen(source, out[b])

\* The list the entries are taken from: the top-level one when one of its
\* elements gives an entry, else the event's own.
SourceList(top, embedded) ==
  IF \E j \in 1..Len(top) : YieldsEntry(top[j]) THEN top ELSE embedded

\* C31: the cleaned categories of an accepted event are names of the enum,
\* a name outside it showing as 'event'; categories and tags hold no value
\* twice and keep the order in which their source list first shows each
\* value; the source is the top-level list when it yields an entry, else the
\* event's embedded list.
C31_ListsCleaned ==
  \A r \in Runs :
    Accepted(r) =>
      LET cats == run[r].cleaned.categories
          tags == run[r].cleaned.tags
          cat_source == SourceList(run[r].top_categories, run[r].raw.categories)
          tag_source == SourceList(run[r].top_tags, run[r].raw.event_tags)
      IN /\ \A j \in 1..Len(cats) : cats[j] \in CATEGORY_ENUM
         /\ InFirstSeenOrder(cats, CategoriesOf(cat_source))
         /\ InFirstSeenOrder(tags, TagsOf(tag_source))
         /\ (\E j \in 1..Len(cat_source) :
               /\ YieldsEntry(cat_source[j])
               /\ \A c \in CATEGORY_ENUM : Spelling[c] # CategoryName(cat_source[j]))
              => "event" \in Range(cats)

\* An event was accepted whose top-level categories list is not empty but
\* yields nothing, so that its categories are those of its embedded list,
\* given twice there and kept once.
C31_Witness ==
  \E r \in Runs :
    /\ Accepted(r)
    /\ run[r].top_categories # <<>>
    /\ CategoriesOf(run[r].top_categories) = <<>>
    /\ Len(run[r].raw.categories) = 2
    /\ run[r].cleaned.categories = <<"sport">>

\* The tag as C32 describes it, step by step: s without the blanks around
\* it, then without the '#' in front, then without punctuation.
Trimmed(s) ==
  IF \A j \in 1..Len(s) : s[j] \in Whitespace THEN <<>>
  ELSE LET first == CHOOSE a \in 1..Len(s) :
                      s[a] \notin Whitespace
                      /\ \A b \in 1..(a - 1) : s[b] \in Whitespace
           last == CHOOSE a \in 1..Len(s) :
                     s[a] \notin Whitespace
                     /\ \A b \in (a + 1)..Len(s) : s[b] \in Whitespace
       IN SubSeq(s, first, last)

WithoutLeadingHash(s) ==
  LET hashes == CHOOSE n \in 0..Len(s) :
                  /\ \A j \in 1..n : s[j] = "#"
                  /\ n < Len(s) => s[n + 1] # "#"
  IN SubSeq(s, hashes + 1, Len(s))

TagStem(s) ==
  LET bare == SelectSeq(WithoutLeadingHash(Trimmed(s)), NotPunctuation)
  IN IF /\ Len(bare) > 3
        /\ bare[Len(bare)] = "s"
        /\ bare[Len(bare) - 1] # "s"
     THEN SubSeq(bare, 1, Len(bare) - 1)
     ELSE bare

\* out is stem in title case.
IsTitleOf(out, stem) ==
  /\ Lower(out) = Lower(stem)
  /\ \A j \in 1..Len(out) :
       IsCased(out[j]) =>
         (IsUpperCase(out[j]) <=> (j = 1 \/ ~IsCased(out[j - 1])))

\* C32: _normalize_tag gives the tag without surrounding blanks, leading
\* '#' and punctuation, without one trailing 's' exactly when what is left
\* ends in 's', not in 'ss', and has more than 3 characters, in title case;
\* '#Tryouts' gives 'Tryout', 'Glass' gives 'Glass', '#JV' gives 'Jv'.
C32_TagNormalized ==
  \A r \in Runs :
    (Accepted(r) /\ Len(run[r].top_tags) = 1 /\ YieldsEntry(run[r].top_tags[1])) =>
      LET tag == run[r].top_tags[1].chars
          out == run[r].cleaned.tags
      IN /\ Len(out) = 1
         /\ IsTitleOf(out[1], TagStem(tag))
         /\ tag = <<"#", "T", "r", "y", "o", "u", "t", "s">> =>
              out[1] = <<"T", "r", "y", "o", "u", "t">>
         /\ tag = <<"G", "l", "a", "s", "s">> =>
              out[1] = <<"G", "l", "a", "s", "s">>
         /\ tag = <<"#", "J", "V">> => out[1] = <<"J", "v">>

\* The tag ' gas ' was normalized: three characters, so the 's' stays.
C32_Witness ==
  \E r \in Runs :
    /\ Accepted(r)
    /\ run[r].top_tags = <<StrEntry(<<" ", "g", "a", "s", " ">>)>>
    /\ run[r].cleaned.tags = <<<<"G", "a", "s">>>>

\* ------------------------------------------------ claims on the token wait
\* The call of t has compared the usage and only the token threshold was
\* reached.
OnlyTokensExceeded(t) ==
  /\ pc[t] \in {"record", "sleeping"}
  /\ usage[t] # NoUsage
  /\ usage[t].rpm < RPM_THRESHOLD
  /\ usage[t].rpd < RPD_THRESHOLD
  /\ usage[t].tpm + estimated_tokens[t] >= TPM_THRESHOLD

\* C33: when only the token threshold is exceeded the call sleeps, and the
\* token queue as it is purged once the wait and the one-second buffer have
\* elapsed leaves room for the estimate, tpm + estimate < TPM_THRESHOLD, for
\* every estimate, one that alone reaches the threshold included.
C33_TokenWaitFreesRoom ==
  \A t \in Threads :
    OnlyTokensExceeded(t) =>
      /\ pc[t] = "sleeping"
      /\ SumTokens(PopExpired(tokens_per_minute, wake[t] - MINUTE_WINDOW))
           + estimated_tokens[t] < TPM_THRESHOLD

\* ------------------------------------------- claims on repeated insertion
\* C34: without a crash or a reset, a post for which an event row has been
\* inserted is marked processed in the same run: when the first run of a
\* process returns, every post that has rows in the events table has
\* processed=true, so the query of a later run does not select it.
C34_InsertedPostProcessed ==
  (runs = 1 /\ bpc = "returned") =>
    \A p \in DOMAIN posts_db :
      events_db[p] > 0 =>
        /\ posts_db[p].processed
        /\ p \notin Range(FetchedRows(NoLimit))

\* --------------------------------------------------- claims on the lock
\* Two threads running the gateway and a third one calling update_limits,
\* get_usage_stats and reset_usage on the same tracker.
LockRequests == {<<SystemMessage, UserMessage(0, 0)>>}
LockResponses == {r \in ConcurrentResponses : r.kind # "error" /\ r.header = None}
LockTimePoints == {0, 4, 61}

NextLock ==
  \/ \E t \in Threads : \E m \in LockRequests : Begin(t, m)
  \/ \E t \in Threads : Acquire(t)
  \/ \E t \in Threads : Evaluate(t)
  \/ \E t \in Threads : Record(t)
  \/ \E t \in Threads : Wake(t)
  \/ \E t \in Threads : SkipRefused(t)
  \/ \E t \in Threads : \E r \in LockResponses : NetworkCall(t, r)
  \/ \E t \in Threads : UpdateActualUsage(t)
  \/ \E t \in Threads : AfterBackoff(t)
  \/ \E t \in Threads : Return(t)
  \/ \E r \in RpmLimits : \E d \in RpdLimits : \E k \in TpmLimits : UpdateLimits(r, d, k)
  \/ GetUsageStats
  \/ ResetUsage
  \/ \E tp \in LockTimePoints : Tick(tp)

SpecLock == Init /\ [][NextLock]_vars

\* The call of o is at a `with self.lock:` it has not entered yet.
Blocked(o) == pc[o] \in {"admit", "update"}

\* C35: the lock is held for the whole predictive-wait sleep: while a caller
\* sleeps inside check_and_wait_if_needed it owns the lock, and no step of
\* another thread enters check_and_wait_if_needed or update_actual_usage,
\* changes a limit, reads the usage or resets the queues.
C35_LockHeldWhileSleeping ==
  [][\A t \in Threads :
       pc[t] = "sleeping" =>
         /\ lock = t /\ lock' = t
         /\ queueVars' = queueVars
         /\ limitVars' = limitVars
         /\ stats' = NoStats
         /\ \A o \in Threads \ {t} :
              Blocked(o) => (pc'[o] = pc[o] /\ usage'[o] = usage[o])]_vars

\* C35 witness: one caller is in its sleep, the wake-up time not yet reached,
\* while the other thread stands at the lock of update_actual_usage.
C35_Witness ==
  \E t \in Threads : \E o \in Threads \ {t} :
    /\ pc[t] = "sleeping" /\ now < wake[t] /\ lock = t
    /\ pc[o] = "update"

\* ------------------------------------------ claims on retries and queues
\* The extra network calls one extract call can make on its one admission.
EXTRA_CALLS == max_retries - 1

\* C36: admission is performed once per extract call: a thread is in
\* check_and_wait_if_needed only before its first network call, a retry
\* after a throttling response goes to the network call without touching
\* the queues, an entry is appended only by the admission of a call that has
\* made no network call yet, and so one recorded request stands for at most
\* 1 + 2 network calls.
C36_OneAdmissionPerExtract ==
  /\ [](\A t \in Threads :
          /\ pc[t] \in {"admit", "check", "record", "sleeping"} => netCalls[t] = 0
          /\ netCalls[t] > 0 => admitted[t] = "True"
          /\ netCalls[t] <= 1 + EXTRA_CALLS)
  /\ [][/\ \A t \in Threads :
             (pc[t] = "backoff" /\ pc'[t] # "backoff") =>
               /\ pc'[t] \in {"call", "done"}
               /\ queueVars' = queueVars
               /\ admitted'[t] = admitted[t]
        /\ Len(requests_per_day') > Len(requests_per_day) =>
             /\ Len(requests_per_day') = Len(requests_per_day) + 1
             /\ \E t \in Threads :
                  pc[t] = "record" /\ pc'[t] = "call" /\ netCalls[t] = 0]_vars

\* C36 witness: an extract call has made three network calls and the tracker
\* has recorded one request.
C36_Witness ==
  \E t \in Threads :
    /\ pc[t] = "done" /\ netCalls[t] = 1 + EXTRA_CALLS
    /\ admitted[t] = "True"
    /\ Len(requests_per_day) = 1

\* Queue q2 is q with nothing but the token count of its last entry changed.
SameButLastTokens(q, q2) ==
  /\ Len(q2) = Len(q)
  /\ \A i \in 1..(Len(q) - 1) : q2[i] = q[i]
  /\ q # <<>> => q2[Len(q)][1] = q[Len(q)][1]

\* C37: update_actual_usage rewrites whichever entry is last in each queue
\* when it runs, whoever appended it: every entry before the last keeps its
\* value, the last one gets the reported token count when its timestamp is
\* less than 5 seconds from now, and an update that comes 5 seconds or more
\* after the last entry's timestamp changes nothing.
C37_UpdateHitsLastEntry ==
  [][\A t \in Threads :
       (pc[t] = "update" /\ pc'[t] # "update") =>
         \A k \in 1..3 :
           LET q == queueVars[k]
               q2 == queueVars'[k]
           IN /\ SameButLastTokens(q, q2)
              /\ (q # <<>> /\ now - Last(q)[1] < RECENCY_WINDOW) =>
                   Last(q2)[2] = response[t].tokens
              /\ (q # <<>> /\ now - Last(q)[1] >= RECENCY_WINDOW) => q2 = q]_vars

\* C37 witness: two callers were admitted within 5 seconds, each made one
\* network call and each has run its update, and the entry of the caller
\* admitted first still holds its estimate: both updates wrote the entry of
\* the caller admitted second.
C37_Witness ==
  /\ now < RECENCY_WINDOW
  /\ \A t \in Threads :
       /\ pc[t] = "done" /\ admitted[t] = "True" /\ netCalls[t] = 1
       /\ response[t].kind = "ok" /\ response[t].tokens # NoTokens
  /\ \A k \in 1..3 :
       /\ Len(queueVars[k]) = 2
       /\ queueVars[k][1][2] \notin {response[t].tokens : t \in Threads}
       /\ queueVars[k][2][2] \in {response[t].tokens : t \in Threads}

\* Queue q is ordered by non-decreasing timestamp.
TimeOrdered(q) == \A i \in 1..(Len(q) - 1) : q[i][1] <= q[i + 1][1]

\* Queue q is the end of queue d.
IsSuffix(q, d) ==
  /\ Len(q) <= Len(d)
  /\ q = SubSeq(d, Len(d) - Len(q) + 1, Len(d))

\* C38: in every state of the tracker each of the three queues is ordered by
\* non-decreasing timestamp, the per-minute request queue and the per-minute
\* token queue hold the same entries, and these are the trailing entries of
\* the per-day queue.
C38_QueuesOrderedAndNested ==
  /\ TimeOrdered(requests_per_minute)
  /\ TimeOrdered(requests_per_day)
  /\ TimeOrdered(tokens_per_minute)
  /\ requests_per_minute = tokens_per_minute
  /\ IsSuffix(requests_per_minute, requests_per_day)

\* C38 witness: after a purge the per-minute queues hold the later one of
\* two entries of the per-day queue, rewritten by a usage update.
C38_Witness ==
  /\ Len(requests_per_day) = 2
  /\ Len(requests_per_minute) = 1
  /\ requests_per_day[1][1] < requests_per_day[2][1]
  /\ requests_per_minute[1] = requests_per_day[2]
  /\ \E t \in Threads :
       /\ pc[t] = "done" /\ response[t].tokens # NoTokens
       /\ requests_per_minute[1][2] = response[t].tokens

\* C39: the retry-after sleep follows every throttling response, the one to
\* the third attempt included: a throttling response always leads into the
\* sleep, a call has slept as often as it was throttled, and the call that
\* exhausts its attempts has slept three times and returns None once the
\* last sleep is over, without another network call.
C39_SleepAfterEveryThrottle ==
  /\ [](\A t \in Threads :
          /\ (pc[t] \in {"backoff", "done"} /\ response[t].kind = "throttled") =>
               sleeps[t] = netCalls[t]
          /\ (pc[t] = "done" /\ response[t].kind = "throttled") =>
               /\ sleeps[t] = max_retries
               /\ result[t] = None
               /\ now >= wake[t])
  /\ [][\A t \in Threads :
          /\ (pc[t] = "call" /\ pc'[t] # "call" /\ response'[t].kind = "throttled") =>
               /\ pc'[t] = "backoff"
               /\ sleeps'[t] = sleeps[t] + 1
          /\ (pc[t] = "backoff" /\ sleeps[t] = max_retries /\ pc'[t] # "backoff") =>
               /\ now >= wake[t]
               /\ pc'[t] = "done"
               /\ result'[t] = None
               /\ netCalls'[t] = netCalls[t]]_vars

\* C39 witness: the call has given up after its third sleep, which followed
\* the throttling response to the third attempt.
C39_Witness ==
  \E t \in Threads :
    /\ pc[t] = "done" /\ response[t].kind = "throttled"
    /\ attempt[t] = max_retries - 1
    /\ sleeps[t] = max_retries /\ netCalls[t] = max_retries
    /\ now >= wake[t] /\ result[t] = None

====
